---------------------------- MODULE Spec2Model ----------------------------
(***************************************************************************)
(* A model of the orchestration layer of the AI social media system:       *)
(* the LLM gateway (OpenAIService), the platform generators, the fan-out   *)
(* coordinator (PostCreatorAgent), the dialog router (SuperAgent) with its *)
(* conversation history read, and the transport adapter (TelegramBot).     *)
(*                                                                         *)
(* A text is a sequence of characters; a character is a one-element        *)
(* string.  The names SPARKLES, CROSS, PHONE, MEMO and BULLET each stand   *)
(* for one non-ASCII code point of the source.                             *)
(***************************************************************************)
EXTENDS Integers, Sequences, FiniteSets, TLC

VARIABLES
    genAgent,     \* generator under call: platform tag of the agent
    genRemote,    \* outcome of the remote chat-completion call
    genPc,        \* "call" | "returned" | "raised"
    post,         \* value returned by create_post (a text), <<>> before
    genErr,       \* exception create_post raised, "-" if none
    genCalls,     \* number of gateway calls create_post has made
    clsOp,        \* classifier under call: "detect_platforms" | "analyze_intent"
    clsTokens,    \* the tokens the remote reply was written from, each with its meaning
    clsRemote,    \* outcome of the remote chat-completion call
    clsPc,        \* "call" | "returned" | "raised"
    clsResult,    \* value returned by the classifier, <<>> before
    clsRequest,   \* sampling parameters of the request that reached the remote
    cpPc,         \* create_posts: "detect" | "gather" | "done" | "raised"
    platforms,    \* create_posts: the detected platform tags
    platform_names, \* create_posts: display name of each started generator
    tasks,        \* create_posts: agent key of each started generator
    results,      \* create_posts: outcome of each started generator
    response,     \* create_posts: the returned text, <<>> before
    completions,  \* create_posts: the generators that completed, in that order
    cpPrompt,     \* create_posts: the prompt argument
    cpHistory,    \* create_posts: the history argument
    messages,     \* the messages table, rows in insertion order
    clock,        \* creation time of the newest row
    max_history,  \* settings.MAX_CONVERSATION_HISTORY
    fetchLog,     \* the two latest calls of _get_conversation_history
    rtOp,         \* router: "process_text" | "process_image"
    rtInput,      \* router: the user's text, or the caption of the image
    rtPc,         \* router: "start" | "create_posts" | "complete" | "returned" | "raised"
    rtHistory,    \* router: the history fetched for the request
    rtIntent,     \* router: the classified intent, <<>> before
    rtCalls,      \* router: the calls made for the request, in order
    rtResponse,   \* router: the returned text, <<>> before
    conversations, \* the conversations table, rows in insertion order
    allowed_user_ids, \* settings.allowed_user_ids
    update,       \* transport: the inbound message being handled
    botPc,        \* transport: position of the handler
    conversation, \* transport: the conversation row the handler works on
    sends,        \* transport: the replies attempted for the inbound message,
                  \* in order, each with the outcome of its send
    rowsBefore,   \* transport: number of message rows when the handler was entered
    handled,      \* transport: number of inbound messages taken up
    requests      \* the requests made to the remote model for the current
                  \* inbound message (or call), in the order of their completion

genVars == <<genAgent, genRemote, genPc, post, genErr, genCalls>>
clsVars == <<clsOp, clsTokens, clsRemote, clsPc, clsResult, clsRequest>>
cpVars  == <<cpPc, platforms, platform_names, tasks, results, response, completions,
            cpPrompt, cpHistory>>

dbVars  == <<messages, clock, max_history, fetchLog>>

rtVars  == <<rtOp, rtInput, rtPc, rtHistory, rtIntent, rtCalls, rtResponse>>

botVars == <<conversations, allowed_user_ids, update, botPc, conversation, sends,
             rowsBefore, handled>>

gwVars  == <<requests>>

vars == <<genVars, clsVars, cpVars, dbVars, rtVars, botVars, gwVars>>

-----------------------------------------------------------------------------
(* Text primitives of the Python runtime, as the code uses them.            *)

UpperLetters ==
    <<"A","B","C","D","E","F","G","H","I","J","K","L","M",
      "N","O","P","Q","R","S","T","U","V","W","X","Y","Z">>

LowerLetters ==
    <<"a","b","c","d","e","f","g","h","i","j","k","l","m",
      "n","o","p","q","r","s","t","u","v","w","x","y","z">>

Range(f) == { f[i] : i \in DOMAIN f }

Whitespace == { " ", "\n", "\t" }

IsLetter(c) == c \in Range(UpperLetters) \cup Range(LowerLetters)

LowerChar(c) ==
    IF c \in Range(UpperLetters)
    THEN LowerLetters[CHOOSE i \in 1..26 : UpperLetters[i] = c]
    ELSE c

UpperChar(c) ==
    IF c \in Range(LowerLetters)
    THEN UpperLetters[CHOOSE i \in 1..26 : LowerLetters[i] = c]
    ELSE c

\* str.lower()
Lower(s) == [i \in 1..Len(s) |-> LowerChar(s[i])]

\* str.title(): a letter that follows a non-letter is upper-cased, every
\* other letter is lower-cased
Title(s) ==
    [i \in 1..Len(s) |->
        IF i = 1 \/ ~IsLetter(s[i-1]) THEN UpperChar(s[i]) ELSE LowerChar(s[i])]

\* str.strip()
Strip(s) ==
    LET keep == { i \in 1..Len(s) : s[i] \notin Whitespace }
    IN  IF keep = {} THEN <<>>
        ELSE LET lo == CHOOSE i \in keep : \A j \in keep : i <= j
                 hi == CHOOSE i \in keep : \A j \in keep : i >= j
             IN  SubSeq(s, lo, hi)

\* sub in s
Contains(sub, s) ==
    \E i \in 1..(Len(s) - Len(sub) + 1) : SubSeq(s, i, i + Len(sub) - 1) = sub

\* s[:n]
Take(s, n) == SubSeq(s, 1, IF n < Len(s) THEN n ELSE Len(s))

\* s[-n:]
LastN(s, n) == SubSeq(s, IF Len(s) > n THEN Len(s) - n + 1 ELSE 1, Len(s))

RECURSIVE Split(_, _)
\* s.split(sep) for a one-character separator
Split(s, sep) ==
    LET at == { i \in 1..Len(s) : s[i] = sep }
    IN  IF at = {} THEN << s >>
        ELSE LET k == CHOOSE i \in at : \A j \in at : i <= j
             IN  << SubSeq(s, 1, k - 1) >> \o Split(SubSeq(s, k + 1, Len(s)), sep)

RECURSIVE Join(_, _)
\* sep.join(parts)
Join(parts, sep) ==
    IF Len(parts) = 0 THEN <<>>
    ELSE IF Len(parts) = 1 THEN parts[1]
    ELSE parts[1] \o sep \o Join(Tail(parts), sep)

\* c * n
Rep(c, n) == [i \in 1..n |-> c]

-----------------------------------------------------------------------------
(* LLM gateway: OpenAIService.complete.                                     *)
(* The remote call either raises (kind "error"), answers with no content    *)
(* (kind "none") or answers with a content text (kind "text").              *)

RemoteError == [kind |-> "error", content |-> <<>>]
RemoteNone  == [kind |-> "none",  content |-> <<>>]
RemoteText(c) == [kind |-> "text", content |-> c]

Raised(e) == [ok |-> FALSE, text |-> <<>>, err |-> e]
Returned(t) == [ok |-> TRUE, text |-> t, err |-> "-"]

complete(remote) ==
    IF remote.kind = "error" THEN Raised("OpenAIError")
    ELSE IF remote.kind = "none" THEN Raised("ValueError")
    ELSE Returned(Strip(remote.content))

\* settings.OPENAI_TEMPERATURE and every temperature of the model, in tenths
OPENAI_TEMPERATURE == 7

\* settings.OPENAI_MAX_TOKENS
OPENAI_MAX_TOKENS == 800

\* an optional argument: None, or a value
None == [given |-> FALSE, value |-> 0]
Some(v) == [given |-> TRUE, value |-> v]

\* Python's  value or default  for an optional number: None and 0 are falsy
PyOr(opt, default) ==
    IF opt.given /\ opt.value # 0 THEN opt.value ELSE default

\* the sampling parameters complete sends to the remote model
completion_request(temperature, max_tokens) ==
    [temperature |-> PyOr(temperature, OPENAI_TEMPERATURE),
     max_tokens  |-> PyOr(max_tokens, OPENAI_MAX_TOKENS)]

NoRequest == [temperature |-> 0, max_tokens |-> 0]

Tx    == <<"x">>
Ttwitter   == <<"t","w","i","t","t","e","r">>
Tlinkedin  == <<"l","i","n","k","e","d","i","n">>
Tinstagram == <<"i","n","s","t","a","g","r","a","m">>
Tyoutube   == <<"y","o","u","t","u","b","e">>
Tschool    == <<"s","c","h","o","o","l">>
Tnone      == <<"n","o","n","e">>
Tcreate_post == <<"c","r","e","a","t","e","_","p","o","s","t">>
Tedit_image  == <<"e","d","i","t","_","i","m","a","g","e">>
Tgeneral     == <<"g","e","n","e","r","a","l">>
Tedit_only   == <<"e","d","i","t","_","o","n","l","y">>
Tpost_only   == <<"p","o","s","t","_","o","n","l","y">>
Tboth        == <<"b","o","t","h">>

\* [x for x in xs if x in keep]
RECURSIVE Filter(_, _)
Filter(xs, keep) ==
    IF Len(xs) = 0 THEN <<>>
    ELSE (IF Head(xs) \in keep THEN << Head(xs) >> ELSE <<>>) \o Filter(Tail(xs), keep)

valid_platforms == { Tx, Ttwitter, Tlinkedin, Tinstagram, Tyoutube, Tschool }

\* as detect_platforms, but the twitter alias is returned as it is
detect_platforms_alias_kept(remote) ==
    LET r == complete(remote)
    IN  IF ~r.ok THEN <<>>
        ELSE LET result == Strip(Lower(r.text))
             IN  IF result = Tnone THEN <<>>
                 ELSE LET parts == Split(result, ",")
                          tokens == [i \in 1..Len(parts) |-> Strip(parts[i])]
                      IN  Filter(tokens, valid_platforms)

\* OpenAIService.detect_platforms: a list of platform tags; [] on "none"
\* and on any failure
detect_platforms(remote) ==
    LET r == complete(remote)
    IN  IF ~r.ok THEN <<>>
        ELSE LET result == Strip(Lower(r.text))
             IN  IF result = Tnone THEN <<>>
                 ELSE LET parts == Split(result, ",")
                          tokens == [i \in 1..Len(parts) |-> Strip(parts[i])]
                          valid == Filter(tokens, valid_platforms)
                      IN  [i \in 1..Len(valid) |->
                              IF valid[i] = Ttwitter THEN Tx ELSE valid[i]]

\* as analyze_intent, but the reply is compared as the model wrote it
analyze_intent_raw(remote) ==
    LET r == complete(remote)
    IN  IF ~r.ok THEN Tgeneral
        ELSE IF r.text \in { Tcreate_post, Tedit_image, Tgeneral } THEN r.text
        ELSE Tgeneral

\* OpenAIService.analyze_intent: one of the three intents; general on an
\* invalid reply and on any failure
analyze_intent(remote) ==
    LET r == complete(remote)
    IN  IF ~r.ok THEN Tgeneral
        ELSE LET intent == Strip(Lower(r.text))
             IN  IF intent \in { Tcreate_post, Tedit_image, Tgeneral } THEN intent
                 ELSE Tgeneral

\* as analyze_image_intent, but an unusable reply is read as a request for both
analyze_image_intent_both(remote) ==
    LET r == complete(remote)
    IN  IF ~r.ok THEN Tedit_only
        ELSE LET intent == Strip(Lower(r.text))
             IN  IF intent \in { Tedit_only, Tpost_only, Tboth } THEN intent
                 ELSE Tboth

\* OpenAIService.analyze_image_intent: one of the three image intents;
\* edit_only on an invalid reply and on any failure
analyze_image_intent(remote) ==
    LET r == complete(remote)
    IN  IF ~r.ok THEN Tedit_only
        ELSE LET intent == Strip(Lower(r.text))
             IN  IF intent \in { Tedit_only, Tpost_only, Tboth } THEN intent
                 ELSE Tedit_only

\* OpenAIService.analyze_intent: the system prompt
analyze_intent_system_prompt ==
    <<"Y","o","u"," ","a","r","e"," ","a","n"," ","i","n","t","e","n","t"," ","c","l","a","s",
      "s","i","f","i","e","r"," ","f","o","r"," ","a","n"," ","A","I"," ","s","o","c","i","a",
      "l"," ","m","e","d","i","a"," ","s","y","s","t","e","m",".","\n","\n","A","n","a","l","y",
      "z","e"," ","t","h","e"," ","u","s","e","r","'","s"," ","m","e","s","s","a","g","e"," ",
      "a","n","d"," ","c","l","a","s","s","i","f","y"," ","i","t"," ","i","n","t","o"," ","o",
      "n","e"," ","o","f"," ","t","h","e","s","e"," ","i","n","t","e","n","t","s",":","\n","-",
      " ","c","r","e","a","t","e","_","p","o","s","t",":"," ","U","s","e","r"," ","w","a","n",
      "t","s"," ","t","o"," ","c","r","e","a","t","e"," ","s","o","c","i","a","l"," ","m","e",
      "d","i","a"," ","c","o","n","t","e","n","t","\n","-"," ","e","d","i","t","_","i","m","a",
      "g","e",":"," ","U","s","e","r"," ","w","a","n","t","s"," ","t","o"," ","e","d","i","t",
      " ","a","n"," ","i","m","a","g","e"," ","(","b","u","t"," ","n","o"," ","i","m","a","g",
      "e"," ","u","p","l","o","a","d","e","d"," ","y","e","t",")","\n","-"," ","g","e","n","e",
      "r","a","l",":"," ","G","e","n","e","r","a","l"," ","c","o","n","v","e","r","s","a","t",
      "i","o","n"," ","o","r"," ","u","n","c","l","e","a","r"," ","i","n","t","e","n","t","\n",
      "\n","R","e","s","p","o","n","d"," ","w","i","t","h"," ","O","N","L","Y"," ","t","h","e",
      " ","i","n","t","e","n","t"," ","n","a","m","e",","," ","n","o","t","h","i","n","g"," ",
      "e","l","s","e",".">>

\* OpenAIService.analyze_image_intent: the system prompt
analyze_image_intent_system_prompt ==
    <<"Y","o","u"," ","a","r","e"," ","a","n"," ","i","n","t","e","n","t"," ","c","l","a","s",
      "s","i","f","i","e","r"," ","f","o","r"," ","i","m","a","g","e","-","r","e","l","a","t",
      "e","d"," ","r","e","q","u","e","s","t","s",".","\n","\n","A","n","a","l","y","z","e"," ",
      "t","h","e"," ","c","a","p","t","i","o","n"," ","a","n","d"," ","c","l","a","s","s","i",
      "f","y"," ","i","t"," ","i","n","t","o"," ","o","n","e"," ","o","f"," ","t","h","e","s",
      "e"," ","i","n","t","e","n","t","s",":","\n","-"," ","e","d","i","t","_","o","n","l","y",
      ":"," ","U","s","e","r"," ","w","a","n","t","s"," ","t","o"," ","e","d","i","t","/","m",
      "o","d","i","f","y"," ","t","h","e"," ","i","m","a","g","e","\n","-"," ","p","o","s","t",
      "_","o","n","l","y",":"," ","U","s","e","r"," ","w","a","n","t","s"," ","t","o"," ","c",
      "r","e","a","t","e"," ","a"," ","s","o","c","i","a","l"," ","m","e","d","i","a"," ","p",
      "o","s","t"," ","a","b","o","u","t"," ","t","h","e"," ","i","m","a","g","e","\n","-"," ",
      "b","o","t","h",":"," ","U","s","e","r"," ","w","a","n","t","s"," ","b","o","t","h"," ",
      "i","m","a","g","e"," ","e","d","i","t","i","n","g"," ","a","n","d"," ","p","o","s","t",
      " ","c","r","e","a","t","i","o","n","\n","\n","R","e","s","p","o","n","d"," ","w","i","t",
      "h"," ","O","N","L","Y"," ","t","h","e"," ","i","n","t","e","n","t"," ","n","a","m","e",
      ","," ","n","o","t","h","i","n","g"," ","e","l","s","e",".">>

\* OpenAIService.detect_platforms: the system prompt
detect_platforms_system_prompt ==
    <<"Y","o","u"," ","a","r","e"," ","a"," ","p","l","a","t","f","o","r","m"," ","d","e","t",
      "e","c","t","o","r"," ","f","o","r"," ","s","o","c","i","a","l"," ","m","e","d","i","a",
      " ","c","o","n","t","e","n","t"," ","c","r","e","a","t","i","o","n",".","\n","\n","A","n",
      "a","l","y","z","e"," ","t","h","e"," ","r","e","q","u","e","s","t"," ","a","n","d"," ",
      "i","d","e","n","t","i","f","y"," ","w","h","i","c","h"," ","p","l","a","t","f","o","r",
      "m","s"," ","t","h","e","y"," ","w","a","n","t"," ","c","o","n","t","e","n","t"," ","f",
      "o","r",".","\n","\n","A","v","a","i","l","a","b","l","e"," ","p","l","a","t","f","o","r",
      "m","s",":"," ","x",","," ","l","i","n","k","e","d","i","n",","," ","i","n","s","t","a",
      "g","r","a","m",","," ","y","o","u","t","u","b","e",","," ","s","c","h","o","o","l","\n",
      "\n","R","e","s","p","o","n","d"," ","w","i","t","h"," ","a"," ","c","o","m","m","a","-",
      "s","e","p","a","r","a","t","e","d"," ","l","i","s","t"," ","o","r"," ","\"","n","o","n",
      "e","\""," ","i","f"," ","n","o"," ","s","p","e","c","i","f","i","c"," ","p","l","a","t",
      "f","o","r","m"," ","m","e","n","t","i","o","n","e","d",".","\n","E","x","a","m","p","l",
      "e",":"," ","\"","l","i","n","k","e","d","i","n","\""," ","o","r"," ","\"","x",",","i",
      "n","s","t","a","g","r","a","m","\""," ","o","r"," ","\"","n","o","n","e","\"","\n">>

\* {"role": "system", "content": ...} and {"role": "user", "content": ...}
SystemMessage(content) == [role |-> "system", content |-> content]
UserMessage(content) == [role |-> "user", content |-> content]

\* the messages analyze_intent sends: prompt, history[-3:], the user's text
analyze_intent_messages(text, history) ==
    << SystemMessage(analyze_intent_system_prompt) >>
    \o LastN(history, 3)
    \o << UserMessage(text) >>

\* the messages analyze_image_intent sends
analyze_image_intent_messages(caption) ==
    << SystemMessage(analyze_image_intent_system_prompt), UserMessage(caption) >>

\* the messages detect_platforms sends
detect_platforms_messages(prompt) ==
    << SystemMessage(detect_platforms_system_prompt), UserMessage(prompt) >>

\* one request made to the remote model: who made it (for a generator also
\* its key and the position of its task), the messages sent and whether the
\* call succeeded
Request(caller, key, task, msgs, remote) ==
    [caller |-> caller, key |-> key, task |-> task, messages |-> msgs,
     ok |-> complete(remote).ok]

-----------------------------------------------------------------------------
(* Platform generators.                                                     *)

\* XAgent.create_post: the system prompt
XAgent_system_prompt ==
    <<"Y","o","u"," ","a","r","e"," ","a","n"," ","e","x","p","e","r","t"," ","X"," ","(","T",
      "w","i","t","t","e","r",")"," ","c","o","n","t","e","n","t"," ","c","r","e","a","t","o",
      "r",".","\n","\n","X"," ","P","O","S","T"," ","R","E","Q","U","I","R","E","M","E","N","T",
      "S",":","\n","-"," ","M","A","X","I","M","U","M"," ","2","8","0"," ","c","h","a","r","a",
      "c","t","e","r","s"," ","(","S","T","R","I","C","T"," ","L","I","M","I","T",")","\n","-",
      " ","S","t","r","o","n","g",","," ","a","t","t","e","n","t","i","o","n","-","g","r","a",
      "b","b","i","n","g"," ","o","p","e","n","i","n","g","\n","-"," ","C","o","n","c","i","s",
      "e"," ","a","n","d"," ","p","u","n","c","h","y","\n","-"," ","C","l","e","a","r"," ","v",
      "a","l","u","e"," ","o","r"," ","i","n","s","i","g","h","t","\n","-"," ","C","o","n","v",
      "e","r","s","a","t","i","o","n","a","l"," ","a","n","d"," ","a","u","t","h","e","n","t",
      "i","c","\n","-"," ","1","-","3"," ","h","a","s","h","t","a","g","s"," ","(","i","n","c",
      "l","u","d","e","d"," ","i","n"," ","c","h","a","r","a","c","t","e","r"," ","c","o","u",
      "n","t",")","\n","-"," ","U","s","e"," ","l","i","n","e"," ","b","r","e","a","k","s"," ",
      "f","o","r"," ","r","e","a","d","a","b","i","l","i","t","y","\n","\n","T","O","N","E",":",
      " ","C","o","n","f","i","d","e","n","t",","," ","d","i","r","e","c","t",","," ","e","n",
      "g","a","g","i","n","g","\n","\n","C","r","e","a","t","e"," ","a","n"," ","X"," ","p","o",
      "s","t","."," ","M","U","S","T"," ","b","e"," ","u","n","d","e","r"," ","2","8","0"," ",
      "c","h","a","r","a","c","t","e","r","s",".">>

\* LinkedInAgent.create_post: the system prompt
LinkedInAgent_system_prompt ==
    <<"Y","o","u"," ","a","r","e"," ","a","n"," ","e","x","p","e","r","t"," ","L","i","n","k",
      "e","d","I","n"," ","c","o","n","t","e","n","t"," ","c","r","e","a","t","o","r",".","\n",
      "\n","L","I","N","K","E","D","I","N"," ","P","O","S","T"," ","C","H","A","R","A","C","T",
      "E","R","I","S","T","I","C","S",":","\n","-"," ","P","r","o","f","e","s","s","i","o","n",
      "a","l"," ","y","e","t"," ","c","o","n","v","e","r","s","a","t","i","o","n","a","l"," ",
      "a","n","d"," ","a","u","t","h","e","n","t","i","c","\n","-"," ","S","t","a","r","t"," ",
      "w","i","t","h"," ","a","n"," ","a","t","t","e","n","t","i","o","n","-","g","r","a","b",
      "b","i","n","g"," ","h","o","o","k","\n","-"," ","U","s","e"," ","s","t","o","r","y","t",
      "e","l","l","i","n","g"," ","a","n","d"," ","p","e","r","s","o","n","a","l"," ","i","n",
      "s","i","g","h","t","s","\n","-"," ","D","e","m","o","n","s","t","r","a","t","e"," ","t",
      "h","o","u","g","h","t"," ","l","e","a","d","e","r","s","h","i","p","\n","-"," ","I","n",
      "c","l","u","d","e"," ","a","c","t","i","o","n","a","b","l","e"," ","i","n","s","i","g",
      "h","t","s","\n","-"," ","S","h","o","r","t"," ","p","a","r","a","g","r","a","p","h","s",
      " ","w","i","t","h"," ","l","i","n","e"," ","b","r","e","a","k","s","\n","-"," ","E","n",
      "d"," ","w","i","t","h"," ","e","n","g","a","g","e","m","e","n","t"," ","(","q","u","e",
      "s","t","i","o","n"," ","o","r"," ","C","T","A",")","\n","-"," ","3","-","5"," ","r","e",
      "l","e","v","a","n","t"," ","h","a","s","h","t","a","g","s"," ","a","t"," ","e","n","d",
      "\n","-"," ","1","5","0","-","3","0","0"," ","w","o","r","d","s"," ","o","p","t","i","m",
      "a","l","\n","\n","T","O","N","E",":"," ","P","r","o","f","e","s","s","i","o","n","a","l",
      ","," ","c","o","n","f","i","d","e","n","t",","," ","e","d","u","c","a","t","i","o","n",
      "a","l",","," ","e","n","g","a","g","i","n","g","\n","\n","C","r","e","a","t","e"," ","a",
      " ","L","i","n","k","e","d","I","n"," ","p","o","s","t"," ","b","a","s","e","d"," ","o",
      "n"," ","t","h","e"," ","u","s","e","r","'","s"," ","r","e","q","u","e","s","t",".">>

\* InstagramAgent.create_post: the system prompt
InstagramAgent_system_prompt ==
    <<"Y","o","u"," ","a","r","e"," ","a","n"," ","e","x","p","e","r","t"," ","I","n","s","t",
      "a","g","r","a","m"," ","c","o","n","t","e","n","t"," ","c","r","e","a","t","o","r",".",
      "\n","\n","I","N","S","T","A","G","R","A","M"," ","C","A","P","T","I","O","N"," ","C","H",
      "A","R","A","C","T","E","R","I","S","T","I","C","S",":","\n","-"," ","V","i","s","u","a",
      "l","-","f","i","r","s","t",":"," ","c","o","m","p","l","e","m","e","n","t"," ","t","h",
      "e"," ","i","m","a","g","e","\n","-"," ","S","t","r","o","n","g"," ","o","p","e","n","i",
      "n","g"," ","h","o","o","k","\n","-"," ","A","u","t","h","e","n","t","i","c"," ","a","n",
      "d"," ","r","e","l","a","t","a","b","l","e","\n","-"," ","S","t","o","r","y","t","e","l",
      "l","i","n","g"," ","w","h","e","n"," ","a","p","p","r","o","p","r","i","a","t","e","\n",
      "-"," ","3","-","5"," ","e","m","o","j","i","s"," ","n","a","t","u","r","a","l","l","y",
      " ","i","n","t","e","g","r","a","t","e","d","\n","-"," ","L","i","n","e"," ","b","r","e",
      "a","k","s"," ","f","o","r"," ","r","e","a","d","a","b","i","l","i","t","y","\n","-"," ",
      "E","n","d"," ","w","i","t","h"," ","C","T","A"," ","o","r"," ","q","u","e","s","t","i",
      "o","n","\n","-"," ","5","-","1","0"," ","r","e","l","e","v","a","n","t"," ","h","a","s",
      "h","t","a","g","s"," ","a","t"," ","e","n","d","\n","-"," ","1","2","5","-","1","5","0",
      " ","w","o","r","d","s"," ","i","d","e","a","l","\n","\n","T","O","N","E",":"," ","A","u",
      "t","h","e","n","t","i","c",","," ","p","e","r","s","o","n","a","l",","," ","i","n","s",
      "p","i","r","a","t","i","o","n","a","l","\n","\n","C","r","e","a","t","e"," ","a","n"," ",
      "I","n","s","t","a","g","r","a","m"," ","c","a","p","t","i","o","n",".">>

\* YouTubeAgent.create_post: the system prompt
YouTubeAgent_system_prompt ==
    <<"Y","o","u"," ","a","r","e"," ","a","n"," ","e","x","p","e","r","t"," ","Y","o","u","T",
      "u","b","e"," ","c","o","n","t","e","n","t"," ","c","r","e","a","t","o","r",".","\n","\n",
      "Y","O","U","T","U","B","E"," ","C","O","N","T","E","N","T"," ","S","T","R","U","C","T",
      "U","R","E",":","\n","1","."," ","T","i","t","l","e"," ","(","6","0","-","7","0"," ","c",
      "h","a","r","a","c","t","e","r","s",","," ","a","t","t","e","n","t","i","o","n","-","g",
      "r","a","b","b","i","n","g",","," ","k","e","y","w","o","r","d","-","r","i","c","h",")",
      "\n","2","."," ","D","e","s","c","r","i","p","t","i","o","n"," ","(","S","E","O","-","o",
      "p","t","i","m","i","z","e","d",","," ","1","5","0","-","3","0","0"," ","w","o","r","d",
      "s",")","\n","\n","T","I","T","L","E",":"," ","C","l","e","a","r"," ","v","a","l","u","e",
      ","," ","i","n","c","l","u","d","e","s"," ","k","e","y","w","o","r","d","s",","," ","c",
      "r","e","a","t","e","s"," ","c","u","r","i","o","s","i","t","y","\n","D","E","S","C","R",
      "I","P","T","I","O","N",":"," ","F","i","r","s","t"," ","2","-","3"," ","l","i","n","e",
      "s"," ","c","r","u","c","i","a","l",","," ","n","a","t","u","r","a","l"," ","k","e","y",
      "w","o","r","d","s",","," ","t","i","m","e","s","t","a","m","p","s"," ","i","f"," ","r",
      "e","l","e","v","a","n","t",","," ","C","T","A","\n","\n","F","o","r","m","a","t"," ","a",
      "s",":","\n","*","*","T","i","t","l","e",":","*","*"," ","[","t","i","t","l","e","]","\n",
      "\n","*","*","D","e","s","c","r","i","p","t","i","o","n",":","*","*","\n","[","d","e","s",
      "c","r","i","p","t","i","o","n","]","\n","\n","T","O","N","E",":"," ","E","n","t","h","u",
      "s","i","a","s","t","i","c",","," ","c","l","e","a","r",","," ","S","E","O","-","c","o",
      "n","s","c","i","o","u","s","\n","\n","C","r","e","a","t","e"," ","Y","o","u","T","u","b",
      "e"," ","t","i","t","l","e"," ","a","n","d"," ","d","e","s","c","r","i","p","t","i","o",
      "n",".">>

\* SchoolAgent.create_post: the system prompt
SchoolAgent_system_prompt ==
    <<"Y","o","u"," ","a","r","e"," ","a","n"," ","e","x","p","e","r","t"," ","c","o","m","m",
      "u","n","i","t","y"," ","m","a","n","a","g","e","r"," ","f","o","r"," ","S","c","h","o",
      "o","l"," ","p","l","a","t","f","o","r","m",".","\n","\n","S","C","H","O","O","L"," ","P",
      "O","S","T"," ","C","H","A","R","A","C","T","E","R","I","S","T","I","C","S",":","\n","-",
      " ","C","o","m","m","u","n","i","t","y","-","f","o","c","u","s","e","d"," ","a","n","d",
      " ","c","o","l","l","a","b","o","r","a","t","i","v","e","\n","-"," ","E","d","u","c","a",
      "t","i","o","n","a","l"," ","a","n","d"," ","v","a","l","u","e","-","d","r","i","v","e",
      "n","\n","-"," ","E","n","c","o","u","r","a","g","e","s"," ","d","i","s","c","u","s","s",
      "i","o","n","\n","-"," ","F","r","i","e","n","d","l","y",","," ","s","u","p","p","o","r",
      "t","i","v","e"," ","t","o","n","e","\n","-"," ","C","l","e","a","r"," ","s","t","r","u",
      "c","t","u","r","e"," ","w","i","t","h"," ","h","e","a","d","i","n","g","s","\n","-"," ",
      "1","5","0","-","2","5","0"," ","w","o","r","d","s","\n","-"," ","2","-","4"," ","e","m",
      "o","j","i","s"," ","f","o","r"," ","v","i","s","u","a","l"," ","b","r","e","a","k","s",
      "\n","-"," ","O","f","t","e","n"," ","e","n","d","s"," ","w","i","t","h"," ","\"","L","o",
      "v","e"," ","a","n"," ","a","u","t","o","m","a","t","i","o","n",","," ","J","a","c","k",
      "\"","\n","\n","T","O","N","E",":"," ","W","a","r","m",","," ","e","x","p","e","r","t",
      " ","b","u","t"," ","a","p","p","r","o","a","c","h","a","b","l","e",","," ","c","o","m",
      "m","u","n","i","t","y","-","o","r","i","e","n","t","e","d","\n","\n","C","r","e","a","t",
      "e"," ","a"," ","S","c","h","o","o","l"," ","c","o","m","m","u","n","i","t","y"," ","p",
      "o","s","t",".">>

MAX_LENGTH == 280

Ellipsis == <<".", ".", ".">>

SignatureMarker ==
    <<"L","o","v","e"," ","a","n"," ","a","u","t","o","m","a","t","i","o","n">>

Signature ==
    <<"\n","\n","L","o","v","e"," ","a","n"," ","a","u","t","o","m","a","t","i","o","n",",",
      "\n","J","a","c","k">>

\* as XTruncate, but a post of exactly the limit is cut as well
XTruncateAtLimit(p) ==
    IF Len(p) >= MAX_LENGTH THEN Take(p, MAX_LENGTH - 3) \o Ellipsis ELSE p

\* as XTruncate, but the cut leaves no room for the ellipsis
XTruncateNoRoom(p) ==
    IF Len(p) > MAX_LENGTH THEN Take(p, MAX_LENGTH) \o Ellipsis ELSE p

\* XAgent: enforce the character limit
XTruncate(p) ==
    IF Len(p) > MAX_LENGTH THEN Take(p, MAX_LENGTH - 3) \o Ellipsis ELSE p

\* as SchoolSign, but the signature is added without looking for it
SchoolSignAlways(p) == p \o Signature

\* SchoolAgent: add the signature if not present
SchoolSign(p) ==
    IF ~Contains(SignatureMarker, p) THEN p \o Signature ELSE p

\* XAgent.create_post: one completion, the limit enforced, errors re-raised
XAgent_create_post(remote) ==
    LET r == complete(remote)
    IN  IF r.ok THEN Returned(XTruncate(r.text)) ELSE r

\* SchoolAgent.create_post: one completion, the signature added, errors re-raised
SchoolAgent_create_post(remote) ==
    LET r == complete(remote)
    IN  IF r.ok THEN Returned(SchoolSign(r.text)) ELSE r

\* as LinkedInAgent_create_post, but a failure is raised as another error
LinkedInAgent_create_post_wrapping(remote) ==
    LET r == complete(remote)
    IN  IF r.ok THEN r ELSE Raised("RuntimeError")

\* LinkedInAgent.create_post: the completion is returned as it is
LinkedInAgent_create_post(remote) == complete(remote)

\* InstagramAgent.create_post: the completion is returned as it is
InstagramAgent_create_post(remote) == complete(remote)

\* YouTubeAgent.create_post: the completion is returned as it is
YouTubeAgent_create_post(remote) == complete(remote)

-----------------------------------------------------------------------------
(* Fan-out coordinator: PostCreatorAgent.                                   *)

\* keys of PostCreatorAgent.agents
AgentKeys == { Tx, Ttwitter, Tlinkedin, Tinstagram, Tyoutube, Tschool }

\* as agents_get, but a name without an agent is given the X generator
agents_get_fallback(platform) ==
    IF Lower(platform) \in AgentKeys THEN Lower(platform) ELSE Tx

\* self.agents.get(platform.lower()): the key of the agent, <<>> for None
agents_get(platform) ==
    IF Lower(platform) \in AgentKeys THEN Lower(platform) ELSE <<>>

\* the create_post of the agent stored under a key
agent_create_post(key, remote) ==
    CASE key \in { Tx, Ttwitter } -> XAgent_create_post(remote)
      [] key = Tlinkedin          -> LinkedInAgent_create_post(remote)
      [] key = Tinstagram         -> InstagramAgent_create_post(remote)
      [] key = Tyoutube           -> YouTubeAgent_create_post(remote)
      [] key = Tschool            -> SchoolAgent_create_post(remote)

\* the system prompt of the agent stored under a key
agent_system_prompt(key) ==
    CASE key \in { Tx, Ttwitter } -> XAgent_system_prompt
      [] key = Tlinkedin          -> LinkedInAgent_system_prompt
      [] key = Tinstagram         -> InstagramAgent_system_prompt
      [] key = Tyoutube           -> YouTubeAgent_system_prompt
      [] key = Tschool            -> SchoolAgent_system_prompt

\* as agent_messages, but the whole history is forwarded
agent_messages_whole_history(key, prompt, history) ==
    << SystemMessage(agent_system_prompt(key)) >>
    \o history
    \o << UserMessage(prompt) >>

\* the messages a generator sends: its prompt, history[-3:], the live prompt
agent_messages(key, prompt, history) ==
    << SystemMessage(agent_system_prompt(key)) >>
    \o LastN(history, 3)
    \o << UserMessage(prompt) >>

\* the name a platform is shown under
display_name(platform) ==
    IF Lower(platform) \in { Tx, Ttwitter } THEN <<"X">> ELSE Title(platform)

Header ==
    <<"SPARKLES"," ","*","*","G","e","n","e","r","a","t","e","d"," ","P","o","s","t","s","*",
      "*","\n">>

ErrorBlock(platform_name) ==
    <<"\n","CROSS"," ","*","*">> \o platform_name \o
    <<"*","*",":"," ","E","r","r","o","r"," ","g","e","n","e","r","a","t","i","n","g"," ",
      "p","o","s","t","\n">>

ContentBlock(platform_name, result) ==
    <<"\n","PHONE"," ","*","*">> \o platform_name \o <<"*","*","\n">> \o result \o <<"\n">>

_no_platform_response ==
    <<"MEMO"," ","I"," ","c","a","n"," ","c","r","e","a","t","e"," ","p","o","s","t","s"," ",
      "f","o","r"," ","m","u","l","t","i","p","l","e"," ","p","l","a","t","f","o","r","m","s",
      "!","\n","\n","W","h","i","c","h"," ","p","l","a","t","f","o","r","m","(","s",")"," ","w",
      "o","u","l","d"," ","y","o","u"," ","l","i","k","e","?","\n","BULLET"," ","X"," ","(","T",
      "w","i","t","t","e","r",")","\n","BULLET"," ","L","i","n","k","e","d","I","n","\n",
      "BULLET"," ","I","n","s","t","a","g","r","a","m","\n","BULLET"," ","Y","o","u","T","u",
      "b","e","\n","BULLET"," ","S","c","h","o","o","l","\n","\n","E","x","a","m","p","l","e",
      ":"," ","'","C","r","e","a","t","e"," ","a"," ","L","i","n","k","e","d","I","n"," ","p",
      "o","s","t"," ","a","b","o","u","t"," ","A","I"," ","a","u","t","o","m","a","t","i","o",
      "n","'">>

Pending == [done |-> FALSE, ok |-> FALSE, text |-> <<>>, err |-> "-"]
Done(r) == [done |-> TRUE, ok |-> r.ok, text |-> r.text, err |-> r.err]

\* the platforms that have an agent, in detection order
Selected(ps) ==
    LET RECURSIVE sel(_)
        sel(xs) == IF Len(xs) = 0 THEN <<>>
                   ELSE (IF agents_get(Head(xs)) # <<>> THEN << Head(xs) >> ELSE <<>>)
                        \o sel(Tail(xs))
    IN  sel(ps)

\* the response text built from the gathered results
FormatResponse(names, res) ==
    Join(<< Header >> \o
         [i \in 1..Len(names) |->
             IF ~res[i].ok THEN ErrorBlock(names[i])
             ELSE ContentBlock(names[i], res[i].text)],
         <<"\n">>)

CpIdle ==
    /\ cpPc = "idle" /\ platforms = <<>> /\ platform_names = <<>>
    /\ tasks = <<>> /\ results = <<>> /\ response = <<>> /\ completions = <<>>
    /\ cpPrompt = <<>> /\ cpHistory = <<>>

RtIdle ==
    /\ rtOp = "-" /\ rtInput = <<>> /\ rtPc = "idle" /\ rtHistory = <<>>
    /\ rtIntent = <<>> /\ rtCalls = <<>> /\ rtResponse = <<>>

NoUpdate == [kind |-> "-", user_id |-> 0, chat_id |-> 0, text |-> <<>>]

NoConversation == [id |-> 0, telegram_user_id |-> 0, telegram_chat_id |-> 0]

BotIdle ==
    /\ conversations = <<>> /\ allowed_user_ids = {} /\ update = NoUpdate
    /\ botPc = "idle" /\ conversation = NoConversation /\ sends = <<>>
    /\ rowsBefore = 0
    /\ handled = 0

DEFAULT_MAX_CONVERSATION_HISTORY == 10

DbIdle ==
    /\ messages = <<>> /\ clock = 0 /\ fetchLog = <<>>
    /\ max_history = DEFAULT_MAX_CONVERSATION_HISTORY

-----------------------------------------------------------------------------
(* Conversation store and the history read of the dialog router.            *)

\* creation time given to a new row: later than that of every stored row
created_at_default(now) == now + 1

\* Message(conversation_id=..., role=..., content=...)
Message(conversation_id, role, content, created_at) ==
    [conversation_id |-> conversation_id, role |-> role, content |-> content,
     created_at |-> created_at]

\* .filter(Message.conversation_id == conversation_id)
FilterConversation(rows, conversation_id) ==
    SelectSeq(rows, LAMBDA m : m.conversation_id = conversation_id)

\* .order_by(Message.created_at.desc()): the row at position p is the one
\* with p - 1 rows before it, a newer row first and, of two rows of one
\* creation time, the one stored first
OrderByCreatedDesc(rows) ==
    LET before(i) == { j \in 1..Len(rows) :
                         \/ rows[j].created_at > rows[i].created_at
                         \/ rows[j].created_at = rows[i].created_at /\ j < i }
    IN  [p \in 1..Len(rows) |->
            rows[CHOOSE i \in 1..Len(rows) : Cardinality(before(i)) = p - 1]]

\* reversed(xs)
Reversed(xs) == [i \in 1..Len(xs) |-> xs[Len(xs) + 1 - i]]

\* {"role": msg.role, "content": msg.content}
MessageDict(msg) == [role |-> msg.role, content |-> msg.content]

\* as HistoryRows, but the query result is not reversed
HistoryRowsNewestFirst(rows, conversation_id, limit) ==
    Take(OrderByCreatedDesc(FilterConversation(rows, conversation_id)), limit)

\* as HistoryRows, but the query orders by ascending creation time
HistoryRowsOldest(rows, conversation_id, limit) ==
    Reversed(Take(Reversed(OrderByCreatedDesc(FilterConversation(rows, conversation_id))),
                  limit))

\* the rows behind SuperAgent._get_conversation_history: the query, reversed
HistoryRows(rows, conversation_id, limit) ==
    Reversed(Take(OrderByCreatedDesc(FilterConversation(rows, conversation_id)), limit))

\* SuperAgent._get_conversation_history
_get_conversation_history(rows, conversation_id, limit) ==
    LET found == HistoryRows(rows, conversation_id, limit)
    IN  [i \in 1..Len(found) |-> MessageDict(found[i])]

-----------------------------------------------------------------------------
(* Dialog router: SuperAgent.  The names U00F0, U0178, U201C, U00B8,        *)
(* U00E2, U20AC, U00A2, U017D and U00A8 each stand for the code point of    *)
(* that number, as the source file holds it.                                *)

\* SuperAgent._image_upload_required_response
_image_upload_required_response ==
    <<"U00F0","U0178","U201C","U00B8"," ","T","o"," ","e","d","i","t"," ","a","n"," ","i","m",
      "a","g","e",","," ","p","l","e","a","s","e"," ","u","p","l","o","a","d"," ","a","n"," ",
      "i","m","a","g","e"," ","a","l","o","n","g"," ","w","i","t","h"," ","y","o","u","r"," ",
      "i","n","s","t","r","u","c","t","i","o","n","s",".","\n","\n","F","o","r"," ","e","x","a",
      "m","p","l","e",","," ","u","p","l","o","a","d"," ","a"," ","p","h","o","t","o"," ","a",
      "n","d"," ","a","d","d"," ","a"," ","c","a","p","t","i","o","n"," ","l","i","k","e",":",
      "\n","U00E2","U20AC","U00A2"," ","'","C","h","a","n","g","e"," ","t","h","e"," ","t","e",
      "x","t"," ","t","o"," ","H","e","l","l","o"," ","W","o","r","l","d","'","\n","U00E2",
      "U20AC","U00A2"," ","'","M","a","k","e"," ","t","h","e"," ","b","a","c","k","g","r","o",
      "u","n","d"," ","b","l","u","e","'","\n","U00E2","U20AC","U00A2"," ","'","A","d","d"," ",
      "a"," ","s","e","c","o","n","d"," ","d","o","g"," ","t","o"," ","t","h","i","s"," ","i",
      "m","a","g","e","'">>

\* SuperAgent._image_instructions_required_response
_image_instructions_required_response ==
    <<"U00F0","U0178","U201C","U00B8"," ","I"," ","r","e","c","e","i","v","e","d"," ","y","o",
      "u","r"," ","i","m","a","g","e","!"," ","W","h","a","t"," ","w","o","u","l","d"," ","y",
      "o","u"," ","l","i","k","e"," ","m","e"," ","t","o"," ","d","o"," ","w","i","t","h"," ",
      "i","t","?","\n","\n","Y","o","u"," ","c","a","n",":","\n","U00E2","U20AC","U00A2"," ",
      "E","d","i","t"," ","t","h","e"," ","i","m","a","g","e",":"," ","'","C","h","a","n","g",
      "e"," ","t","h","e"," ","t","e","x","t"," ","t","o",".",".",".","'",","," ","'","M","a",
      "k","e"," ","t","h","e"," ","b","a","c","k","g","r","o","u","n","d"," ","b","l","u","e",
      "'","\n","U00E2","U20AC","U00A2"," ","C","r","e","a","t","e"," ","a"," ","p","o","s","t",
      ":"," ","'","W","r","i","t","e"," ","a"," ","L","i","n","k","e","d","I","n"," ","p","o",
      "s","t"," ","a","b","o","u","t"," ","t","h","i","s"," ","i","m","a","g","e","'","\n",
      "U00E2","U20AC","U00A2"," ","B","o","t","h",":"," ","'","A","d","d"," ","a"," ","l","o",
      "g","o"," ","a","n","d"," ","c","r","e","a","t","e"," ","a","n"," ","I","n","s","t","a",
      "g","r","a","m"," ","p","o","s","t","'">>

\* SuperAgent._image_editing_not_available_response
_image_editing_not_available_response ==
    <<"U00F0","U0178","U017D","U00A8"," ","I","m","a","g","e"," ","e","d","i","t","i","n","g",
      " ","r","e","q","u","i","r","e","s"," ","a","d","d","i","t","i","o","n","a","l"," ","c",
      "o","n","f","i","g","u","r","a","t","i","o","n",".","\n","\n","T","o"," ","e","n","a","b",
      "l","e"," ","i","m","a","g","e"," ","e","d","i","t","i","n","g",","," ","p","l","e","a",
      "s","e"," ","c","o","n","f","i","g","u","r","e",":","\n","U00E2","U20AC","U00A2"," ","I",
      "M","A","G","E","B","B","_","A","P","I","_","K","E","Y","\n","U00E2","U20AC","U00A2"," ",
      "R","E","P","L","I","C","A","T","E","_","A","P","I","_","T","O","K","E","N","\n","\n","I",
      " ","c","a","n"," ","s","t","i","l","l"," ","h","e","l","p"," ","y","o","u"," ","c","r",
      "e","a","t","e"," ","p","o","s","t","s"," ","a","b","o","u","t"," ","y","o","u","r"," ",
      "i","m","a","g","e","!">>

\* the persona prompt of _handle_general_conversation
general_system_prompt ==
    <<"Y","o","u"," ","a","r","e"," ","a"," ","h","e","l","p","f","u","l"," ","A","I"," ","a",
      "s","s","i","s","t","a","n","t"," ","f","o","r"," ","a"," ","s","o","c","i","a","l"," ",
      "m","e","d","i","a"," ","a","u","t","o","m","a","t","i","o","n"," ","s","y","s","t","e",
      "m",".","\n","\n","Y","o","u"," ","h","e","l","p"," ","u","s","e","r","s"," ","c","r","e",
      "a","t","e"," ","s","o","c","i","a","l"," ","m","e","d","i","a"," ","c","o","n","t","e",
      "n","t"," ","a","n","d"," ","e","d","i","t"," ","i","m","a","g","e","s","."," ","B","e",
      " ","f","r","i","e","n","d","l","y"," ","a","n","d"," ","g","u","i","d","e"," ","t","h",
      "e","m","\n","o","n"," ","h","o","w"," ","t","o"," ","u","s","e"," ","t","h","e"," ","s",
      "y","s","t","e","m"," ","e","f","f","e","c","t","i","v","e","l","y",".","\n","\n","Y","o",
      "u","r"," ","c","a","p","a","b","i","l","i","t","i","e","s",":","\n","-"," ","C","r","e",
      "a","t","e"," ","p","o","s","t","s"," ","f","o","r"," ","X"," ","(","T","w","i","t","t",
      "e","r",")",","," ","L","i","n","k","e","d","I","n",","," ","I","n","s","t","a","g","r",
      "a","m",","," ","Y","o","u","T","u","b","e",","," ","a","n","d"," ","S","c","h","o","o",
      "l","\n","-"," ","E","d","i","t"," ","i","m","a","g","e","s"," ","w","i","t","h"," ","A",
      "I"," ","(","c","o","m","i","n","g"," ","s","o","o","n",")","\n","-"," ","G","e","n","e",
      "r","a","t","e"," ","m","u","l","t","i","-","p","l","a","t","f","o","r","m"," ","c","o",
      "n","t","e","n","t"," ","s","i","m","u","l","t","a","n","e","o","u","s","l","y","\n","\n",
      "K","e","e","p"," ","r","e","s","p","o","n","s","e","s"," ","c","o","n","c","i","s","e",
      " ","a","n","d"," ","h","e","l","p","f","u","l",".">>

\* the text returned when the general completion fails
general_error_response ==
    <<"I","'","m"," ","s","o","r","r","y",","," ","I"," ","e","n","c","o","u","n","t","e","r",
      "e","d"," ","a","n"," ","e","r","r","o","r","."," ","P","l","e","a","s","e"," ","t","r",
      "y"," ","a","g","a","i","n",".">>

\* f"User uploaded an image and wants: {caption}"
image_context(caption) ==
    <<"U","s","e","r"," ","u","p","l","o","a","d","e","d"," ","a","n"," ","i","m","a","g","e",
      " ","a","n","d"," ","w","a","n","t","s",":"," ">>
    \o caption

\* the messages of the general chat completion
ChatMessagesWholeHistory(text, history) ==
    << [role |-> "system", content |-> general_system_prompt] >>
    \o history
    \o << [role |-> "user", content |-> text] >>

\* the messages of the general chat completion: persona, history[-5:], text
ChatMessages(text, history) ==
    << [role |-> "system", content |-> general_system_prompt] >>
    \o LastN(history, 5)
    \o << [role |-> "user", content |-> text] >>

\* as ImageRoute, but a request for both is delegated to the coordinator
ImageRouteBothPosts(intent) ==
    IF intent = Tedit_only THEN "not_available"
    ELSE "create_posts"

\* process_image: where an image intent is routed
ImageRoute(intent) ==
    IF intent = Tedit_only THEN "not_available"
    ELSE IF intent = Tpost_only THEN "create_posts"
    ELSE "not_available"

\* process_text: where a text intent is routed
TextRoute(intent) ==
    IF intent = Tcreate_post THEN "create_posts"
    ELSE IF intent = Tedit_image THEN "upload_required"
    ELSE "general"

\* one call made by the router: the operation, its text argument, the
\* message list it is given and, for a completion, the sampling parameters
Call(op, text, msgs, request) ==
    [op |-> op, text |-> text, msgs |-> msgs, request |-> request]

-----------------------------------------------------------------------------
(* Transport adapter: TelegramBot.  NOENTRY stands for one code point.      *)

\* as _check_authorization, but an empty allow-list admits nobody
_check_authorization_listed(user_id) == user_id \in allowed_user_ids

\* TelegramBot._check_authorization with settings.is_user_whitelist_enabled
_check_authorization(user_id) ==
    IF allowed_user_ids = {} THEN TRUE ELSE user_id \in allowed_user_ids

not_authorized_text ==
    <<"NOENTRY"," ","Y","o","u"," ","a","r","e"," ","n","o","t"," ","a","u","t","h","o","r","i",
      "z","e","d"," ","t","o"," ","u","s","e"," ","t","h","i","s"," ","b","o","t",".">>

text_error_text ==
    <<"CROSS"," ","S","o","r","r","y",","," ","I"," ","e","n","c","o","u","n","t","e","r","e",
      "d"," ","a","n"," ","e","r","r","o","r","."," ","P","l","e","a","s","e"," ","t","r","y",
      " ","a","g","a","i","n",".">>

image_error_text ==
    <<"CROSS"," ","S","o","r","r","y",","," ","I"," ","e","n","c","o","u","n","t","e","r","e",
      "d"," ","a","n"," ","e","r","r","o","r"," ","p","r","o","c","e","s","s","i","n","g"," ",
      "y","o","u","r"," ","i","m","a","g","e",".">>

unexpected_error_text ==
    <<"CROSS"," ","A","n"," ","u","n","e","x","p","e","c","t","e","d"," ","e","r","r","o","r",
      " ","o","c","c","u","r","r","e","d","."," ","P","l","e","a","s","e"," ","t","r","y"," ",
      "a","g","a","i","n"," ","l","a","t","e","r",".">>

\* the reply of /start
welcome ==
    <<"ROBOT"," ","*","*","A","I"," ","S","o","c","i","a","l"," ","M","e","d","i","a"," ","S",
      "y","s","t","e","m","*","*","\n","\n","I"," ","c","a","n"," ","h","e","l","p"," ","y","o",
      "u"," ","w","i","t","h",":","\n","BULLET"," ","G","e","n","e","r","a","t","e"," ","p","o",
      "s","t","s"," ","f","o","r"," ","X",","," ","L","i","n","k","e","d","I","n",","," ","I",
      "n","s","t","a","g","r","a","m",","," ","Y","o","u","T","u","b","e",","," ","a","n","d",
      " ","S","c","h","o","o","l","\n","BULLET"," ","C","r","e","a","t","e"," ","m","u","l","t",
      "i","-","p","l","a","t","f","o","r","m"," ","c","o","n","t","e","n","t"," ","s","i","m",
      "u","l","t","a","n","e","o","u","s","l","y","\n","\n","J","u","s","t"," ","s","e","n","d",
      " ","m","e"," ","a"," ","m","e","s","s","a","g","e"," ","t","o"," ","g","e","t"," ","s",
      "t","a","r","t","e","d","!","\n","\n","U","s","e"," ","/","h","e","l","p"," ","f","o","r",
      " ","m","o","r","e"," ","i","n","f","o","r","m","a","t","i","o","n",".">>

\* the reply of /help
help_text ==
    <<"BOOK"," ","*","*","H","o","w"," ","t","o"," ","U","s","e","*","*","\n","\n","*","*","C",
      "r","e","a","t","i","n","g"," ","P","o","s","t","s",":","*","*","\n","BULLET"," ","S","e",
      "n","d"," ","a"," ","t","e","x","t"," ","p","r","o","m","p","t",":"," ","'","C","r","e",
      "a","t","e"," ","a"," ","L","i","n","k","e","d","I","n"," ","p","o","s","t"," ","a","b",
      "o","u","t"," ","A","I"," ","a","u","t","o","m","a","t","i","o","n","'","\n","BULLET"," ",
      "R","e","q","u","e","s","t"," ","m","u","l","t","i","p","l","e"," ","p","l","a","t","f",
      "o","r","m","s",":"," ","'","M","a","k","e"," ","p","o","s","t","s"," ","f","o","r"," ",
      "X"," ","a","n","d"," ","I","n","s","t","a","g","r","a","m","'","\n","\n","*","*","T","i",
      "p","s",":","*","*","\n","BULLET"," ","B","e"," ","s","p","e","c","i","f","i","c"," ","w",
      "i","t","h"," ","y","o","u","r"," ","r","e","q","u","e","s","t","s","\n","BULLET"," ","Y",
      "o","u"," ","c","a","n"," ","g","e","n","e","r","a","t","e"," ","c","o","n","t","e","n",
      "t"," ","f","o","r"," ","m","u","l","t","i","p","l","e"," ","p","l","a","t","f","o","r",
      "m","s"," ","a","t"," ","o","n","c","e","\n">>

\* f"[Image uploaded] {caption}"
image_uploaded(caption) ==
    <<"[","I","m","a","g","e"," ","u","p","l","o","a","d","e","d","]"," ">>
    \o caption

\* surrogate id given to a new conversation row: not the id of a stored row
conversation_id_default(rows) == Len(rows) + 1

\* Conversation(telegram_user_id=..., telegram_chat_id=...)
Conversation(id, user_id, chat_id) ==
    [id |-> id, telegram_user_id |-> user_id, telegram_chat_id |-> chat_id]

\* the rows of a (user, chat) pair, in query order
FilterPair(rows, user_id, chat_id) ==
    SelectSeq(rows, LAMBDA c : c.telegram_user_id = user_id /\ c.telegram_chat_id = chat_id)

\* as _get_or_create_conversation, but a row is added without looking for one
_get_or_create_conversation_always(rows, user_id, chat_id) ==
    LET created == Conversation(conversation_id_default(rows), user_id, chat_id)
    IN  [rows |-> Append(rows, created), row |-> created]

\* TelegramBot._get_or_create_conversation: the table after the call and
\* the row returned
_get_or_create_conversation(rows, user_id, chat_id) ==
    LET found == FilterPair(rows, user_id, chat_id)
    IN  IF Len(found) > 0
        THEN [rows |-> rows, row |-> found[1]]
        ELSE LET created == Conversation(conversation_id_default(rows), user_id, chat_id)
             IN  [rows |-> Append(rows, created), row |-> created]

\* one reply sent to a chat
SentReply(chat_id, text) == [chat_id |-> chat_id, text |-> text]

\* one call of reply_text: the chat, the text and whether the send succeeded
Send(chat_id, text, ok) == [chat_id |-> chat_id, text |-> text, ok |-> ok]

-----------------------------------------------------------------------------
(* Specification SpecGen: one call of one generator, for every remote      *)
(* outcome of a bounded family.                                             *)

MaxXLen == 285
MaxFrags == 3

Agents == { "x", "linkedin", "instagram", "youtube", "school" }

\* remote contents for X: optional padding, n letters, an optional tail
XContents ==
    { lead \o Rep("a", n) \o tail \o trail :
        lead \in { <<>>, <<" ">> },
        n \in 0..MaxXLen,
        tail \in { <<>>, <<"b","c","d">> },
        trail \in { <<>>, <<"\n">> } }

SchoolFragments ==
    { <<"H","i">>,
      SignatureMarker,
      <<"L","o","v","e"," ","a","n"," ">>,
      <<"a","u","t","o","m","a","t","i","o","n">>,
      <<"l","o","v","e"," ","a","n"," ","a","u","t","o","m","a","t","i","o","n">>,
      <<",","\n","J","a","c","k">>,
      <<" ">>,
      <<"\n","\n">> }

RECURSIVE Concat(_)
Concat(fs) == IF Len(fs) = 0 THEN <<>> ELSE Head(fs) \o Concat(Tail(fs))

FragLists == UNION { [1..k -> SchoolFragments] : k \in 0..MaxFrags }

SchoolContents == { Concat(fs) : fs \in FragLists }

PlainContents == { <<>>, <<"H","i">>, <<" ","H","i","\n">>, SignatureMarker }

GenContents(agent) ==
    CASE agent = "x"      -> XContents
      [] agent = "school" -> SchoolContents
      [] OTHER            -> PlainContents

RemoteOutcomes(contents) ==
    { RemoteError, RemoteNone } \cup { RemoteText(c) : c \in contents }

GenIdle ==
    /\ genAgent = "-" /\ genRemote = RemoteNone /\ genPc = "idle" /\ post = <<>>
    /\ genErr = "-" /\ genCalls = 0

ClsIdle ==
    /\ clsOp = "-" /\ clsTokens = <<>> /\ clsRemote = RemoteNone
    /\ clsPc = "idle" /\ clsResult = <<>> /\ clsRequest = NoRequest

GenInit ==
    /\ requests = <<>>
    /\ ClsIdle /\ CpIdle /\ DbIdle /\ RtIdle /\ BotIdle
    /\ genAgent \in Agents
    /\ genRemote \in RemoteOutcomes(GenContents(genAgent))
    /\ genPc = "call"
    /\ post = <<>>
    /\ genErr = "-" /\ genCalls = 0

GenReturn(r) ==
    /\ genPc' = IF r.ok THEN "returned" ELSE "raised"
    /\ post' = r.text
    /\ genErr' = r.err
    /\ genCalls' = genCalls + 1
    /\ UNCHANGED <<genAgent, genRemote, clsVars, cpVars, dbVars, rtVars, botVars, gwVars>>

XAgentCall ==
    /\ genPc = "call" /\ genAgent = "x"
    /\ GenReturn(XAgent_create_post(genRemote))

SchoolAgentCall ==
    /\ genPc = "call" /\ genAgent = "school"
    /\ GenReturn(SchoolAgent_create_post(genRemote))

LinkedInAgentCall ==
    /\ genPc = "call" /\ genAgent = "linkedin"
    /\ GenReturn(LinkedInAgent_create_post(genRemote))

InstagramAgentCall ==
    /\ genPc = "call" /\ genAgent = "instagram"
    /\ GenReturn(InstagramAgent_create_post(genRemote))

YouTubeAgentCall ==
    /\ genPc = "call" /\ genAgent = "youtube"
    /\ GenReturn(YouTubeAgent_create_post(genRemote))

GenNext ==
    \/ XAgentCall
    \/ SchoolAgentCall
    \/ LinkedInAgentCall
    \/ InstagramAgentCall
    \/ YouTubeAgentCall

SpecGen == GenInit /\ [][GenNext]_vars

-----------------------------------------------------------------------------
(* C1: whatever text the model returns, of any length, the post returned   *)
(* by XAgent.create_post has at most 280 characters.                       *)
XPostWithinLimit ==
    (genAgent = "x" /\ genPc = "returned") => Len(post) <= 280

\* an over-long model output has been cut down to the limit
XPostTruncatedReached ==
    /\ genAgent = "x" /\ genPc = "returned"
    /\ Len(complete(genRemote).text) > 280
    /\ Len(post) = 280

(* C5: a School post is the model output with the signature appended when  *)
(* the output lacks the signature substring and the model output unchanged  *)
(* when it holds it; so every School post holds the substring, and          *)
(* post-processing a processed post changes nothing.                        *)
SchoolSignatureOnce ==
    (genAgent = "school" /\ genPc = "returned") =>
        LET out == complete(genRemote).text
            has == \E i \in 1..Len(out) :
                      /\ i + 17 <= Len(out)
                      /\ SubSeq(out, i, i + 17) = SignatureMarker
        IN  /\ ~has => post = out \o Signature
            /\ has => post = out
            /\ \E i \in 1..Len(post) :
                  /\ i + 17 <= Len(post)
                  /\ SubSeq(post, i, i + 17) = SignatureMarker
            /\ SchoolSign(post) = post

\* a School post got its signature appended to a non-empty model output
SchoolSignatureAppendedReached ==
    /\ genAgent = "school" /\ genPc = "returned"
    /\ Len(complete(genRemote).text) > 0
    /\ Len(post) = Len(complete(genRemote).text) + Len(Signature)

(* C25: XAgent.create_post returns the model output as it is when that has *)
(* at most 280 characters, and otherwise its first 277 characters followed *)
(* by "...", 280 characters in all.                                        *)
XPostTruncation ==
    (genAgent = "x" /\ genPc = "returned") =>
        LET out == complete(genRemote).text
        IN  IF Len(out) <= 280
            THEN post = out
            ELSE /\ post = SubSeq(out, 1, 277) \o <<".", ".", ".">>
                 /\ Len(post) = 280

\* a model output of exactly 280 characters was returned as it is
XPostAtLimitReached ==
    /\ genAgent = "x" /\ genPc = "returned"
    /\ Len(complete(genRemote).text) = 280
    /\ post = complete(genRemote).text

(* C15: when the complete call of a generator fails with an error E,       *)
(* create_post fails with that same error E: it returns no value, applies  *)
(* no post-processing and has made one gateway call only; this for each of *)
(* the five generators.                                                    *)
GeneratorErrorPropagates ==
    (genPc # "call" /\ ~complete(genRemote).ok) =>
        /\ genPc = "raised"
        /\ genErr = complete(genRemote).err
        /\ post = <<>>
        /\ genCalls = 1

\* the School generator failed on a reply without content: nothing signed
SchoolErrorPropagatedReached ==
    /\ genAgent = "school" /\ genPc = "raised"
    /\ genRemote = RemoteNone
    /\ genErr = "ValueError" /\ post = <<>>

-----------------------------------------------------------------------------
(* Specification SpecClassify: one call of one classifier.  The remote     *)
(* reply is written from a list of tokens, each kept with the tag it       *)
(* stands for (NoTag for a token that names nothing), joined by commas and   *)
(* padded with whitespace.                                                 *)

MaxTokens == 3

NoTag == <<>>

Tok(text, tag) == [text |-> text, tag |-> tag]

PlatformTokens ==
    { Tok(Tx, Tx),
      Tok(<<" ","X"," ">>, Tx),
      Tok(Ttwitter, Tx),
      Tok(<<"T","w","i","t","t","e","r">>, Tx),
      Tok(<<" ","L","i","n","k","e","d","I","n">>, Tlinkedin),
      Tok(Tinstagram, Tinstagram),
      Tok(<<"Y","O","U","T","U","B","E","\n">>, Tyoutube),
      Tok(Tschool, Tschool),
      Tok(Tnone, NoTag),
      Tok(<<"t","i","k","t","o","k">>, NoTag),
      Tok(<<"x"," ","l","i","n","k","e","d","i","n">>, NoTag),
      Tok(<<>>, NoTag) }

IntentTokens ==
    { Tok(Tcreate_post, Tcreate_post),
      Tok(<<"C","r","e","a","t","e","_","P","o","s","t">>, Tcreate_post),
      Tok(Tedit_image, Tedit_image),
      Tok(<<"E","D","I","T","_","I","M","A","G","E">>, Tedit_image),
      Tok(Tgeneral, Tgeneral),
      Tok(<<"G","e","n","e","r","a","l">>, Tgeneral),
      Tok(<<"c","r","e","a","t","e"," ","p","o","s","t">>, NoTag),
      Tok(<<"c","r","e","a","t","e","_","p","o","s","t",".">>, NoTag),
      Tok(<<"i","n","t","e","n","t",":"," ","g","e","n","e","r","a","l">>, NoTag),
      Tok(<<"e","d","i","t","_","o","n","l","y">>, NoTag),
      Tok(<<>>, NoTag) }

ImageIntentTokens ==
    { Tok(Tedit_only, Tedit_only),
      Tok(<<"E","d","i","t","_","O","n","l","y">>, Tedit_only),
      Tok(Tpost_only, Tpost_only),
      Tok(<<"P","O","S","T","_","O","N","L","Y">>, Tpost_only),
      Tok(Tboth, Tboth),
      Tok(<<"B","o","t","h">>, Tboth),
      Tok(<<"p","o","s","t"," ","o","n","l","y">>, NoTag),
      Tok(<<"b","o","t","h",".">>, NoTag),
      Tok(Tcreate_post, NoTag),
      Tok(<<>>, NoTag) }

\* the tokens a classifier's reply is written from
TokensOf(op) ==
    CASE op = "detect_platforms"     -> PlatformTokens
      [] op = "analyze_intent"       -> IntentTokens
      [] op = "analyze_image_intent" -> ImageIntentTokens

Pads == { <<>>, <<" ">>, <<"\n"," ">> }

TokenLists(toks) == UNION { [1..k -> toks] : k \in 0..MaxTokens }

Texts(tl) == [i \in 1..Len(tl) |-> tl[i].text]
Tags(tl)  == [i \in 1..Len(tl) |-> tl[i].tag]

Reply(pad, tl) == RemoteText(pad \o Join(Texts(tl), <<",">>) \o pad)

ClsInit ==
    /\ requests = <<>>
    /\ GenIdle /\ CpIdle /\ DbIdle /\ RtIdle /\ BotIdle
    /\ clsOp \in { "detect_platforms", "analyze_intent", "analyze_image_intent" }
    /\ clsTokens \in TokenLists(TokensOf(clsOp))
    /\ clsRemote \in { RemoteError, RemoteNone }
                        \cup { Reply(pad, clsTokens) : pad \in Pads }
    /\ clsPc = "call"
    /\ clsResult = <<>>
    /\ clsRequest = NoRequest

DetectPlatformsCall ==
    /\ clsPc = "call" /\ clsOp = "detect_platforms"
    /\ clsRequest' = completion_request(Some(0), Some(50))
    /\ clsResult' = detect_platforms(clsRemote)
    /\ clsPc' = "returned"
    /\ UNCHANGED <<clsOp, clsTokens, clsRemote, genVars, cpVars, dbVars, rtVars, botVars, gwVars>>

AnalyzeIntentCall ==
    /\ clsPc = "call" /\ clsOp = "analyze_intent"
    /\ clsRequest' = completion_request(Some(0), Some(20))
    /\ clsResult' = analyze_intent(clsRemote)
    /\ clsPc' = "returned"
    /\ UNCHANGED <<clsOp, clsTokens, clsRemote, genVars, cpVars, dbVars, rtVars, botVars, gwVars>>

AnalyzeImageIntentCall ==
    /\ clsPc = "call" /\ clsOp = "analyze_image_intent"
    /\ clsRequest' = completion_request(Some(0), Some(20))
    /\ clsResult' = analyze_image_intent(clsRemote)
    /\ clsPc' = "returned"
    /\ UNCHANGED <<clsOp, clsTokens, clsRemote, genVars, cpVars, dbVars, rtVars, botVars, gwVars>>

ClsNext ==
    \/ DetectPlatformsCall
    \/ AnalyzeIntentCall
    \/ AnalyzeImageIntentCall

SpecClassify == ClsInit /\ [][ClsNext]_vars

PlatformTags == { Tx, Tlinkedin, Tinstagram, Tyoutube, Tschool }

(* C8: detect_platforms always returns, and returns only platform tags:    *)
(* the tags the reply's tokens name, in order, every other token dropped   *)
(* and twitter returned as x; nothing for the reply "none" and nothing     *)
(* when the gateway call fails.                                            *)
DetectPlatformsResult ==
    (clsOp = "detect_platforms" /\ clsPc # "call") =>
        /\ clsPc = "returned"
        /\ \A i \in 1..Len(clsResult) : clsResult[i] \in PlatformTags
        /\ clsRemote.kind # "text" => clsResult = <<>>
        /\ clsRemote.kind = "text" =>
              clsResult = Filter(Tags(clsTokens), PlatformTags)

\* a reply naming twitter next to an unknown token was reduced to x
DetectPlatformsTwitterReached ==
    /\ clsOp = "detect_platforms" /\ clsPc = "returned"
    /\ clsRemote.kind = "text"
    /\ \E i, j \in 1..Len(clsTokens) :
          /\ Lower(clsTokens[i].text) = Ttwitter
          /\ clsTokens[j].tag = NoTag /\ Len(clsTokens[j].text) > 0
    /\ clsResult = << Tx >>

(* C10: analyze_intent always returns, and returns one of the three        *)
(* intents: the intent the reply names when the trimmed, lower-cased reply *)
(* is exactly an intent name, general for any other reply and general      *)
(* when the gateway call fails.                                            *)
AnalyzeIntentResult ==
    (clsOp = "analyze_intent" /\ clsPc # "call") =>
        /\ clsPc = "returned"
        /\ clsResult \in { Tcreate_post, Tedit_image, Tgeneral }
        /\ clsResult =
              IF clsRemote.kind = "text" /\ Len(clsTokens) = 1
                    /\ clsTokens[1].tag # NoTag
              THEN clsTokens[1].tag
              ELSE Tgeneral

\* a padded, capitalised reply was read as edit_image
AnalyzeIntentNormalisedReached ==
    /\ clsOp = "analyze_intent" /\ clsPc = "returned"
    /\ clsRemote.kind = "text"
    /\ clsRemote.content # Tedit_image
    /\ clsResult = Tedit_image

(* C11: analyze_image_intent always returns, and returns one of edit_only, *)
(* post_only, both: the intent the reply names when the trimmed,           *)
(* lower-cased reply is exactly one of the three names, edit_only for any  *)
(* other reply and edit_only when the gateway call fails.                  *)
AnalyzeImageIntentResult ==
    (clsOp = "analyze_image_intent" /\ clsPc # "call") =>
        /\ clsPc = "returned"
        /\ clsResult \in { Tedit_only, Tpost_only, Tboth }
        /\ clsResult =
              IF clsRemote.kind = "text" /\ Len(clsTokens) = 1
                    /\ clsTokens[1].tag # NoTag
              THEN clsTokens[1].tag
              ELSE Tedit_only

\* a reply naming no image intent was read as edit_only
AnalyzeImageIntentFailOpenReached ==
    /\ clsOp = "analyze_image_intent" /\ clsPc = "returned"
    /\ clsRemote.kind = "text"
    /\ Len(Strip(clsRemote.content)) > 0
    /\ Strip(Lower(clsRemote.content)) \notin { Tedit_only, Tpost_only, Tboth }
    /\ clsResult = Tedit_only

(* C17: the request a classifier sends to the remote model carries         *)
(* sampling temperature 0, not the configured default temperature.         *)
ClassifierTemperatureZero ==
    clsPc = "returned" => clsRequest.temperature = 0

-----------------------------------------------------------------------------
(* Specification SpecPosts: one call of PostCreatorAgent.create_posts.     *)
(* The call suspends at the platform detection and at the gather; the      *)
(* started generators complete one by one, in any order.                   *)

Digits == <<"1","2","3","4","5","6","7","8","9">>

TextPostA == <<"H","i">>
TextPostB == <<" ","P","o","s","t"," ","B","\n">>

\* replies of the platform classifier
DetectRemotes ==
    { RemoteError,
      RemoteText(Tnone),
      RemoteText(<<"t","i","k","t","o","k">>),
      RemoteText(Tlinkedin),
      RemoteText(<<"L","i","n","k","e","d","I","n","\n">>),
      RemoteText(Tx \o <<",">> \o Tlinkedin),
      RemoteText(Tlinkedin \o <<","," ">> \o Ttwitter),
      RemoteText(Tyoutube \o <<",">> \o Tschool \o <<",">> \o Tinstagram),
      RemoteText(Tx \o <<",">> \o Ttwitter) }

\* outcomes of a generator's completion call
PostRemotes ==
    { RemoteError, RemoteNone, RemoteText(<<>>), RemoteText(TextPostA),
      RemoteText(TextPostB) }

MaxHistory == 4

\* the prompts create_posts is called with
CpPrompts == { <<"H","i">>, <<"p","o","s","t"," ","i","t">> }

\* the histories create_posts is called with: none to MaxHistory entries
CpHistories ==
    { [i \in 1..n |->
         [role |-> IF i % 2 = 1 THEN "user" ELSE "assistant",
          content |-> <<"m", Digits[i]>>]] : n \in 0..MaxHistory }

\* create_posts is entered
CpEntered ==
    /\ requests = <<>>
    /\ GenIdle /\ ClsIdle /\ DbIdle /\ RtIdle /\ BotIdle
    /\ cpPc = "detect"
    /\ platforms = <<>> /\ platform_names = <<>>
    /\ tasks = <<>> /\ results = <<>> /\ response = <<>> /\ completions = <<>>

CpInit ==
    /\ CpEntered
    /\ cpPrompt \in CpPrompts
    /\ cpHistory \in CpHistories

\* create_posts from the return of the detection to the gather: without a
\* platform the static prompt is returned, else a generator is started for
\* each platform that has one
Detected(ps) ==
    /\ LET sel == Selected(ps)
       IN  /\ platforms' = ps
           /\ IF Len(ps) = 0
              THEN /\ response' = _no_platform_response
                   /\ cpPc' = "done"
                   /\ UNCHANGED <<tasks, platform_names, results>>
              ELSE /\ tasks' = [i \in 1..Len(sel) |-> agents_get(sel[i])]
                   /\ platform_names' = [i \in 1..Len(sel) |-> display_name(sel[i])]
                   /\ results' = [i \in 1..Len(sel) |-> Pending]
                   /\ cpPc' = "gather"
                   /\ response' = <<>>
    /\ UNCHANGED <<completions, cpPrompt, cpHistory, genVars, clsVars, dbVars, rtVars,
                   botVars>>

\* as DetectReturn, but an empty detection falls through to the fan-out
DetectReturnNoPrompt(remote) ==
    /\ cpPc = "detect"
    /\ LET ps == detect_platforms(remote)
           sel == Selected(ps)
       IN  /\ platforms' = ps
           /\ tasks' = [i \in 1..Len(sel) |-> agents_get(sel[i])]
           /\ platform_names' = [i \in 1..Len(sel) |-> display_name(sel[i])]
           /\ results' = [i \in 1..Len(sel) |-> Pending]
           /\ cpPc' = "gather"
           /\ response' = <<>>
    /\ requests' = Append(requests, Request("detect_platforms", <<>>, 0,
                                            detect_platforms_messages(cpPrompt), remote))
    /\ UNCHANGED <<completions, cpPrompt, cpHistory, genVars, clsVars, dbVars, rtVars,
                   botVars>>

\* create_posts up to the gather: the detection returns
DetectReturn(remote) ==
    /\ cpPc = "detect"
    /\ Detected(detect_platforms(remote))
    /\ requests' = Append(requests, Request("detect_platforms", <<>>, 0,
                                            detect_platforms_messages(cpPrompt), remote))

\* as TaskDone, but gather lets the first exception through
TaskDoneRaising(i, remote) ==
    /\ cpPc = "gather"
    /\ i \in 1..Len(tasks)
    /\ ~results[i].done
    /\ LET r == agent_create_post(tasks[i], remote)
       IN  /\ results' = [results EXCEPT ![i] = Done(r)]
           /\ completions' = Append(completions, [task |-> i, result |-> r])
           /\ cpPc' = IF r.ok THEN "gather" ELSE "raised"
    /\ requests' = Append(requests, Request("create_post", tasks[i], i,
                              agent_messages(tasks[i], cpPrompt, cpHistory), remote))
    /\ UNCHANGED <<platforms, platform_names, tasks, response, cpPrompt, cpHistory,
                   genVars, clsVars, dbVars, rtVars, botVars>>

\* as TaskDone, but gather hands the results back in the order of completion
TaskDoneInCompletionOrder(i, remote) ==
    /\ cpPc = "gather"
    /\ i \in 1..Len(tasks)
    /\ \A k \in 1..Len(completions) : completions[k].task # i
    /\ LET r == agent_create_post(tasks[i], remote)
       IN  /\ results' = [results EXCEPT ![Len(completions) + 1] = Done(r)]
           /\ completions' = Append(completions, [task |-> i, result |-> r])
    /\ requests' = Append(requests, Request("create_post", tasks[i], i,
                              agent_messages(tasks[i], cpPrompt, cpHistory), remote))
    /\ UNCHANGED <<cpPc, platforms, platform_names, tasks, response, cpPrompt, cpHistory,
                   genVars, clsVars, dbVars, rtVars, botVars>>

\* as TaskDone, but a generator that failed is called again
TaskDoneRetrying(i, remote) ==
    /\ cpPc = "gather"
    /\ i \in 1..Len(tasks)
    /\ ~results[i].done
    /\ LET r == agent_create_post(tasks[i], remote)
       IN  IF r.ok
           THEN /\ results' = [results EXCEPT ![i] = Done(r)]
                /\ completions' = Append(completions, [task |-> i, result |-> r])
           ELSE UNCHANGED <<results, completions>>
    /\ requests' = Append(requests, Request("create_post", tasks[i], i,
                              agent_messages(tasks[i], cpPrompt, cpHistory), remote))
    /\ UNCHANGED <<cpPc, platforms, platform_names, tasks, response, cpPrompt, cpHistory,
                   genVars, clsVars, dbVars, rtVars, botVars>>

\* the i-th started generator completes: gather keeps its return value or
\* its exception at the position of its task
TaskDone(i, remote) ==
    /\ cpPc = "gather"
    /\ i \in 1..Len(tasks)
    /\ ~results[i].done
    /\ LET r == agent_create_post(tasks[i], remote)
       IN  /\ results' = [results EXCEPT ![i] = Done(r)]
           /\ completions' = Append(completions, [task |-> i, result |-> r])
    /\ requests' = Append(requests, Request("create_post", tasks[i], i,
                              agent_messages(tasks[i], cpPrompt, cpHistory), remote))
    /\ UNCHANGED <<cpPc, platforms, platform_names, tasks, response, cpPrompt, cpHistory,
                   genVars, clsVars, dbVars, rtVars, botVars>>

\* as GatherReturn, but gather returns as soon as one generator has failed
GatherReturnOnFirstFailure ==
    /\ cpPc = "gather"
    /\ \/ \A i \in 1..Len(results) : results[i].done
       \/ \E i \in 1..Len(results) : results[i].done /\ ~results[i].ok
    /\ response' = FormatResponse(platform_names, results)
    /\ cpPc' = "done"
    /\ UNCHANGED <<platforms, platform_names, tasks, results, completions,
                   cpPrompt, cpHistory, genVars, clsVars, dbVars, rtVars, botVars, gwVars>>

\* gather returns once every generator has completed; the response is built
GatherReturn ==
    /\ cpPc = "gather"
    /\ \A i \in 1..Len(results) : results[i].done
    /\ response' = FormatResponse(platform_names, results)
    /\ cpPc' = "done"
    /\ UNCHANGED <<platforms, platform_names, tasks, results, completions,
                   cpPrompt, cpHistory, genVars, clsVars, dbVars, rtVars, botVars, gwVars>>

CpNext ==
    \/ \E remote \in DetectRemotes : DetectReturn(remote)
    \/ \E i \in 1..Len(tasks), remote \in PostRemotes : TaskDone(i, remote)
    \/ GatherReturn

SpecPosts == CpInit /\ [][CpNext]_vars

\* the completed generators that failed
FailedTasks == { i \in 1..Len(results) : results[i].done /\ ~results[i].ok }

\* a label is looked for without regard to case, the rest of a block as written
HasErrorMarker(resp, label) ==
    Contains(Lower(ErrorBlock(label)), Lower(resp))

HasContentBlock(resp, label, text) ==
    /\ Contains(Lower(<<"PHONE"," ","*","*">> \o label \o <<"*","*","\n">>), Lower(resp))
    /\ Contains(<<"*","*","\n">> \o text \o <<"\n">>, resp)

LabelOf(tag) == IF tag = Tx THEN <<"X">> ELSE tag

(* C2: with x and linkedin detected and exactly one of the two generators  *)
(* raising, create_posts returns (it does not raise) one response with a   *)
(* content block holding the text of the generator that succeeded and an   *)
(* error marker for the one that failed, each under its platform's label,  *)
(* whichever of the two fails.                                             *)
PartialFailureReported ==
    ( /\ platforms \in { <<Tx, Tlinkedin>>, <<Tlinkedin, Tx>> }
      /\ Len(results) = 2
      /\ Cardinality(FailedTasks) = 1 )
    =>  /\ cpPc # "raised"
        /\ cpPc = "done" =>
              \A i \in 1..2 :
                 IF i \in FailedTasks
                 THEN HasErrorMarker(response, LabelOf(platforms[i]))
                 ELSE results[i].done
                      /\ HasContentBlock(response, LabelOf(platforms[i]), results[i].text)

\* the X generator failed, the LinkedIn one succeeded, and the response is out
PartialFailureReached ==
    /\ platforms = <<Tx, Tlinkedin>>
    /\ cpPc = "done"
    /\ Len(results) = 2
    /\ ~results[1].ok /\ results[2].ok /\ Len(results[2].text) > 0

(* C3: when detect_platforms returns nothing, create_posts returns the     *)
(* static platform-choice prompt and starts no generator.                  *)
NoPlatformPrompt ==
    (cpPc # "detect" /\ platforms = <<>>) =>
        /\ cpPc = "done"
        /\ response = _no_platform_response
        /\ tasks = <<>> /\ results = <<>>

\* the static prompt was returned for an empty detection
NoPlatformPromptReached ==
    /\ cpPc = "done" /\ platforms = <<>>
    /\ Contains(<<"W","h","i","c","h"," ","p","l","a","t","f","o","r","m">>, response)

(* C4: with linkedin the only detected platform and its generator          *)
(* returning a text T, the response holds the label "LinkedIn", in that    *)
(* capitalisation, and holds T unchanged.                                  *)
LinkedInLabelled ==
    (cpPc = "done" /\ platforms = << Tlinkedin >> /\ results[1].ok) =>
        /\ Contains(<<"L","i","n","k","e","d","I","n">>, response)
        /\ Contains(results[1].text, response)

(* C12: complete never returns an empty text: a generator that returned    *)
(* did so with a non-empty text, and the response of create_posts holds no *)
(* content block with an empty text, an empty model reply being shown as   *)
(* an error marker for its platform.                                       *)
CompleteNeverEmpty ==
    /\ \A i \in 1..Len(results) :
          (results[i].done /\ results[i].ok) => Len(results[i].text) > 0
    /\ cpPc = "done" =>
          \A i \in 1..Len(platform_names) :
             ~Contains(ContentBlock(platform_names[i], <<>>), response)

(* C18: within one create_posts request each generator is started at most *)
(* once and no two blocks of the response carry the same platform label,   *)
(* also when the classifier's reply repeats a platform or names both x and *)
(* twitter.                                                                *)
EachGeneratorOnce ==
    \A i, j \in 1..Len(tasks) :
        i # j => /\ tasks[i] # tasks[j]
                 /\ platform_names[i] # platform_names[j]

\* the block the response is to hold for a platform tag and its result
ExpectedBlock(tag, result) ==
    IF result.ok THEN ContentBlock(LabelOf(tag), result.text)
    ELSE ErrorBlock(LabelOf(tag))

(* C19: for a non-empty detected list the response of create_posts is the  *)
(* header followed by one labelled block per detected platform, in         *)
(* detection order, the i-th block holding the text the i-th started       *)
(* generator returned or the error marker if it failed, in whatever order  *)
(* the generators completed.  Labels are compared without regard to case.  *)
OneBlockPerPlatformInOrder ==
    (cpPc = "done" /\ Len(platforms) > 0) =>
        /\ Len(tasks) = Len(platforms)
        /\ Len(completions) = Len(tasks)
        /\ \A i \in 1..Len(tasks) :
              \E k \in 1..Len(completions) :
                 /\ completions[k].task = i
                 /\ results[i].ok = completions[k].result.ok
                 /\ results[i].text = completions[k].result.text
        /\ Lower(response)
              = Lower(Join(<< Header >> \o
                           [i \in 1..Len(platforms) |->
                               ExpectedBlock(platforms[i], results[i])],
                           <<"\n">>))
        /\ \A i \in 1..Len(platforms) :
              results[i].ok =>
                 Contains(<<"*","*","\n">> \o results[i].text \o <<"\n">>, response)

\* three generators completed in an order other than the detection order,
\* one of them failing, and the response is out
OutOfOrderCompletionReached ==
    /\ cpPc = "done"
    /\ Len(platforms) = 3
    /\ completions[1].task = 3 /\ completions[2].task = 1
    /\ ~results[2].ok /\ results[1].ok /\ results[3].ok
    /\ results[1].text # results[3].text

(* C21: once create_posts has started its generators, the response is     *)
(* built only after every one of them has completed, by returning or by    *)
(* failing, in every order of completion; a failed generator leaves every  *)
(* pending sibling able to complete, and create_posts never raises.        *)
AllGeneratorsComplete ==
    /\ cpPc # "raised"
    /\ (cpPc = "done" /\ Len(platforms) > 0) =>
          /\ Len(completions) = Len(tasks)
          /\ \A i \in 1..Len(tasks) :
                /\ results[i].done
                /\ Cardinality({ k \in 1..Len(completions) : completions[k].task = i }) = 1
    /\ cpPc = "gather" =>
          \A i \in 1..Len(tasks) :
             ~results[i].done =>
                /\ ENABLED TaskDone(i, RemoteText(TextPostA))
                /\ ENABLED TaskDone(i, RemoteError)

\* the first generator to complete failed, two siblings completed after
\* it, and the response is out
SiblingsCompletedAfterFailureReached ==
    /\ cpPc = "done"
    /\ Len(tasks) = 3 /\ Len(completions) = 3
    /\ ~completions[1].result.ok
    /\ completions[2].result.ok /\ completions[3].result.ok

-----------------------------------------------------------------------------
(* Specification SpecHistory: messages are saved to conversations and the  *)
(* history of a conversation is read, in any order, with the configured    *)
(* window.                                                                 *)

MaxMessages == 4
MaxLimit == 3

ConversationIds == { 1, 2 }

\* what a saved message holds
Payloads ==
    { [role |-> "user", content |-> <<"A">>],
      [role |-> "assistant", content |-> <<"B">>],
      [role |-> "user", content |-> <<"C">>] }

DbInit ==
    /\ requests = <<>>
    /\ GenIdle /\ ClsIdle /\ CpIdle /\ RtIdle /\ BotIdle
    /\ messages = <<>>
    /\ clock = 0
    /\ max_history \in 1..MaxLimit
    /\ fetchLog = <<>>

\* TelegramBot._save_message: one row is added and committed
_save_message(conversation_id, role, content) ==
    /\ Len(messages) < MaxMessages
    /\ clock' = created_at_default(clock)
    /\ messages' = Append(messages, Message(conversation_id, role, content, clock'))
    /\ UNCHANGED <<max_history, fetchLog, genVars, clsVars, cpVars, rtVars, botVars, gwVars>>

\* one call of SuperAgent._get_conversation_history with limit None: the
\* configured window is used; the call and its result are kept
GetConversationHistory(conversation_id) ==
    /\ LET limit == max_history
           call == [conversation_id |-> conversation_id,
                    limit   |-> limit,
                    stored  |-> Len(FilterConversation(messages, conversation_id)),
                    rows    |-> HistoryRows(messages, conversation_id, limit),
                    history |-> _get_conversation_history(messages, conversation_id, limit)]
       IN  fetchLog' = LastN(Append(fetchLog, call), 2)
    /\ UNCHANGED <<messages, clock, max_history, genVars, clsVars, cpVars, rtVars, botVars, gwVars>>

DbNext ==
    \/ \E c \in ConversationIds, p \in Payloads : _save_message(c, p.role, p.content)
    \/ \E c \in ConversationIds : GetConversationHistory(c)

SpecHistory == DbInit /\ [][DbNext]_vars

IsPrefix(a, b) == Len(a) <= Len(b) /\ SubSeq(b, 1, Len(a)) = a

Min(a, b) == IF a < b THEN a ELSE b

\* the rows of a conversation as they were inserted, the first n of them
Inserted(conversation_id, n) ==
    LET own == SelectSeq(messages, LAMBDA m : m.conversation_id = conversation_id)
    IN  SubSeq(own, 1, n)

Increasing(rs) ==
    \A i, j \in 1..Len(rs) : i < j => rs[i].created_at <= rs[j].created_at

(* C6: a history read with window N returns exactly the min(N, stored)    *)
(* newest messages of its own conversation, and none of another one,       *)
(* oldest first: messages inserted as A, B, C come back as A, B, C.        *)
HistoryIsNewestWindow ==
    \A k \in 1..Len(fetchLog) :
        LET f == fetchLog[k]
            then == Inserted(f.conversation_id, f.stored)
            n == Min(f.limit, f.stored)
        IN  /\ Len(f.history) = n
            /\ \A i \in 1..n :
                  /\ f.history[i].role = then[f.stored - n + i].role
                  /\ f.history[i].content = then[f.stored - n + i].content
                  /\ f.rows[i].conversation_id = f.conversation_id

\* A, B, C were saved to one conversation, with a message of the other
\* conversation in between, and read back in that order
HistoryABCReached ==
    \E k \in 1..Len(fetchLog) :
        /\ fetchLog[k].stored = 3
        /\ Len(fetchLog[k].history) = 3
        /\ Len(messages) = 4
        /\ [i \in 1..3 |-> fetchLog[k].history[i].content] = << <<"A">>, <<"B">>, <<"C">> >>

(* C7 as stated: of two histories read for the same conversation with the  *)
(* same window, the earlier is a prefix of the later, and each history is  *)
(* non-decreasing in creation time.                                        *)
HistoryPrefixConsistent ==
    \A i, j \in 1..Len(fetchLog) :
        ( /\ i < j
          /\ fetchLog[i].conversation_id = fetchLog[j].conversation_id
          /\ fetchLog[i].limit = fetchLog[j].limit )
        =>  /\ IsPrefix(fetchLog[i].history, fetchLog[j].history)
            /\ Increasing(fetchLog[i].rows) /\ Increasing(fetchLog[j].rows)

(* C7 as amended: of two histories read for the same conversation with the *)
(* same window N, the earlier one without its entries older than the       *)
(* oldest entry of the later one is a prefix of the later one; the earlier *)
(* one is itself a prefix of the later one when the conversation holds at  *)
(* most N messages at the later read; each history is non-decreasing in    *)
(* creation time.                                                          *)
HistoryWindowConsistent ==
    \A i, j \in 1..Len(fetchLog) :
        ( /\ i < j
          /\ fetchLog[i].conversation_id = fetchLog[j].conversation_id
          /\ fetchLog[i].limit = fetchLog[j].limit )
        =>  LET h1 == fetchLog[i].rows
                h2 == fetchLog[j].rows
                kept == IF Len(h2) = 0 THEN h1
                        ELSE SelectSeq(h1, LAMBDA m : m.created_at >= h2[1].created_at)
            IN  /\ IsPrefix(kept, h2)
                /\ fetchLog[j].stored <= fetchLog[j].limit =>
                      IsPrefix(fetchLog[i].history, fetchLog[j].history)
                /\ Increasing(h1) /\ Increasing(h2)

\* the window slid between two reads: the later history starts inside the
\* earlier one
HistoryWindowSlidReached ==
    \E i, j \in 1..Len(fetchLog) :
        /\ i < j
        /\ fetchLog[i].conversation_id = fetchLog[j].conversation_id
        /\ fetchLog[i].limit = fetchLog[j].limit
        /\ fetchLog[i].stored >= 2
        /\ fetchLog[j].stored > fetchLog[j].limit
        /\ fetchLog[j].stored > fetchLog[i].stored
        /\ Len(fetchLog[i].rows) >= 2
        /\ fetchLog[j].rows[1] = fetchLog[i].rows[2]

-----------------------------------------------------------------------------
(* Specification SpecRouter: one request to SuperAgent, a text or an image *)
(* with its caption, for a conversation with some stored history.  The      *)
(* request suspends at the coordinator and at the general completion.       *)

MaxStored == 7

\* n stored rows, the second one of another conversation
StoredRows(n) ==
    [i \in 1..n |->
        Message(IF i = 2 THEN 2 ELSE 1,
                IF i % 2 = 1 THEN "user" ELSE "assistant",
                <<"m", Digits[i]>>, i)]

RouterTexts == { <<"H","i">>, <<"p","o","s","t"," ","i","t">> }

RouterCaptions == { <<>>, <<"n","i","c","e">> }

\* replies of the text intent classifier
IntentRemotes ==
    { RemoteError, RemoteText(Tcreate_post), RemoteText(<<"E","d","i","t","_","i","m","a","g","e","\n">>),
      RemoteText(Tgeneral), RemoteText(<<"h","m","m">>) }

\* replies of the image intent classifier
ImageIntentRemotes ==
    { RemoteError, RemoteText(Tedit_only), RemoteText(<<" ","P","o","s","t","_","o","n","l","y">>),
      RemoteText(Tboth), RemoteText(<<"h","m","m">>) }

\* outcomes of the general chat completion
ChatRemotes ==
    { RemoteError, RemoteNone, RemoteText(<<" ","H","e","l","l","o","!","\n">>) }

FirstConversation == [id |-> 1, telegram_user_id |-> 1, telegram_chat_id |-> 1]

RouterInit ==
    /\ requests = <<>>
    /\ GenIdle /\ ClsIdle /\ CpIdle
    /\ \E n \in 0..MaxStored :
          messages = StoredRows(n) /\ clock = n /\ rowsBefore = n
    /\ max_history \in { MaxLimit, DEFAULT_MAX_CONVERSATION_HISTORY }
    /\ fetchLog = <<>>
    /\ conversations = << FirstConversation >>
    /\ conversation = FirstConversation
    /\ allowed_user_ids = {} /\ update = NoUpdate /\ botPc = "idle"
    /\ sends = <<>> /\ handled = 0
    /\ \/ rtOp = "process_text" /\ rtInput \in RouterTexts
       \/ rtOp = "process_image" /\ rtInput \in RouterCaptions
    /\ rtPc = "start"
    /\ rtHistory = <<>> /\ rtIntent = <<>> /\ rtCalls = <<>> /\ rtResponse = <<>>

\* the router hands the request to the coordinator and awaits its result
CallCreatePosts(prompt, history) ==
    /\ cpPc' = "detect"
    /\ cpPrompt' = prompt
    /\ cpHistory' = history
    /\ rtPc' = "create_posts"
    /\ rtResponse' = <<>>
    /\ UNCHANGED <<platforms, platform_names, tasks, results, response, completions>>

\* the router returns a text of its own
ReturnText(text) ==
    /\ rtPc' = "returned"
    /\ rtResponse' = text
    /\ UNCHANGED cpVars

\* SuperAgent.process_text up to its first suspension after the intent
\* classification: history read, intent classified, request routed
process_text(remote) ==
    /\ rtOp = "process_text" /\ rtPc = "start"
    /\ LET text == rtInput
           fetched == _get_conversation_history(messages, conversation.id, max_history)
           intent == analyze_intent(remote)
           route == TextRoute(intent)
           made == << Call("_get_conversation_history", <<>>, <<>>, NoRequest),
                      Call("analyze_intent", text, fetched, NoRequest) >>
       IN  /\ rtHistory' = fetched
           /\ rtIntent' = intent
           /\ CASE route = "create_posts" ->
                     /\ rtCalls' = rtCalls \o made
                                     \o << Call("create_posts", text, fetched, NoRequest) >>
                     /\ CallCreatePosts(text, fetched)
                [] route = "upload_required" ->
                     /\ rtCalls' = rtCalls \o made
                     /\ ReturnText(_image_upload_required_response)
                [] route = "general" ->
                     /\ rtCalls' = rtCalls \o made
                           \o << Call("complete", <<>>, ChatMessages(text, fetched),
                                      completion_request(Some(7), Some(500))) >>
                     /\ rtPc' = "complete"
                     /\ rtResponse' = <<>>
                     /\ UNCHANGED cpVars
    /\ requests' = Append(requests, Request("analyze_intent", <<>>, 0,
                              analyze_intent_messages(rtInput, rtHistory'), remote))
    /\ UNCHANGED <<rtOp, rtInput, genVars, clsVars, dbVars, botVars>>

\* SuperAgent.process_image up to its first suspension after the image
\* intent classification
process_image(remote) ==
    /\ rtOp = "process_image" /\ rtPc = "start"
    /\ LET caption == rtInput
       IN  IF Len(caption) = 0
           THEN /\ ReturnText(_image_instructions_required_response)
                /\ UNCHANGED <<rtHistory, rtIntent, rtCalls, requests>>
           ELSE LET fetched == _get_conversation_history(messages, conversation.id,
                                                         max_history)
                    intent == analyze_image_intent(remote)
                    made == << Call("_get_conversation_history", <<>>, <<>>, NoRequest),
                               Call("analyze_image_intent", caption, <<>>, NoRequest) >>
                IN  /\ rtHistory' = fetched
                    /\ rtIntent' = intent
                    /\ requests' = Append(requests,
                          Request("analyze_image_intent", <<>>, 0,
                                  analyze_image_intent_messages(caption), remote))
                    /\ IF ImageRoute(intent) = "create_posts"
                       THEN /\ rtCalls' = rtCalls \o made
                                 \o << Call("create_posts", image_context(caption), fetched,
                                            NoRequest) >>
                            /\ CallCreatePosts(image_context(caption), fetched)
                       ELSE /\ rtCalls' = rtCalls \o made
                            /\ ReturnText(_image_editing_not_available_response)
    /\ UNCHANGED <<rtOp, rtInput, genVars, clsVars, dbVars, botVars>>

\* the history read of process_text or process_image fails: the store's
\* exception leaves the router
_get_conversation_history_raises ==
    /\ rtPc = "start"
    /\ rtOp = "process_text" \/ (rtOp = "process_image" /\ Len(rtInput) > 0)
    /\ rtPc' = "raised"
    /\ rtCalls' = Append(rtCalls, Call("_get_conversation_history", <<>>, <<>>, NoRequest))
    /\ UNCHANGED <<rtOp, rtInput, rtHistory, rtIntent, rtResponse,
                   genVars, clsVars, cpVars, dbVars, botVars, gwVars>>

\* create_posts has returned: the router returns its result
CreatePostsReturn ==
    /\ rtPc = "create_posts" /\ cpPc = "done"
    /\ rtPc' = "returned"
    /\ rtResponse' = response
    /\ UNCHANGED <<rtOp, rtInput, rtHistory, rtIntent, rtCalls,
                   genVars, clsVars, cpVars, dbVars, botVars, gwVars>>

\* _handle_general_conversation: the completion returns or fails
GeneralConversationReturn(remote) ==
    /\ rtPc = "complete"
    /\ LET r == complete(remote)
       IN  rtResponse' = IF r.ok THEN r.text ELSE general_error_response
    /\ rtPc' = "returned"
    /\ requests' = Append(requests, Request("_handle_general_conversation", <<>>, 0,
                              ChatMessages(rtInput, rtHistory), remote))
    /\ UNCHANGED <<rtOp, rtInput, rtHistory, rtIntent, rtCalls,
                   genVars, clsVars, cpVars, dbVars, botVars>>

RouterNext ==
    \/ \E remote \in IntentRemotes : process_text(remote)
    \/ \E remote \in ImageIntentRemotes : process_image(remote)
    \/ _get_conversation_history_raises
    \/ CreatePostsReturn
    \/ \E remote \in ChatRemotes : GeneralConversationReturn(remote)
    \/ CpNext

SpecRouter == RouterInit /\ [][RouterNext]_vars

\* the calls of one operation among the calls made for the request
CallsOf(op) == SelectSeq(rtCalls, LAMBDA c : c.op = op)

(* C13: process_text dispatches on the classified intent only.  For        *)
(* create_post the coordinator is called with the user's text and the      *)
(* fetched history and its result is returned; for edit_image the fixed    *)
(* upload-an-image text is returned with no coordinator and no completion  *)
(* call; for general one completion is made whose messages are the persona *)
(* prompt, the last min(5, length) history entries in order and the user's *)
(* text, and no coordinator call.                                          *)
ProcessTextDispatch ==
    (rtOp = "process_text" /\ rtPc \notin { "start", "raised" }) =>
        /\ rtIntent \in { Tcreate_post, Tedit_image, Tgeneral }
        /\ rtIntent = Tcreate_post =>
              /\ CallsOf("create_posts")
                    = << Call("create_posts", rtInput, rtHistory, NoRequest) >>
              /\ CallsOf("complete") = <<>>
              /\ rtPc = "returned" => (cpPc = "done" /\ rtResponse = response)
        /\ rtIntent = Tedit_image =>
              /\ rtPc = "returned"
              /\ rtResponse = _image_upload_required_response
              /\ CallsOf("create_posts") = <<>> /\ CallsOf("complete") = <<>>
              /\ cpPc = "idle" /\ tasks = <<>>
        /\ rtIntent = Tgeneral =>
              /\ CallsOf("create_posts") = <<>> /\ cpPc = "idle" /\ tasks = <<>>
              /\ Len(CallsOf("complete")) = 1
              /\ LET msgs == CallsOf("complete")[1].msgs
                     n == Min(5, Len(rtHistory))
                 IN  /\ Len(msgs) = n + 2
                     /\ msgs[1] = [role |-> "system", content |-> general_system_prompt]
                     /\ \A i \in 1..n : msgs[1 + i] = rtHistory[Len(rtHistory) - n + i]
                     /\ msgs[n + 2] = [role |-> "user", content |-> rtInput]

\* a general request with more than five stored turns was answered
GeneralWithLongHistoryReached ==
    /\ rtOp = "process_text" /\ rtPc = "returned" /\ rtIntent = Tgeneral
    /\ Len(rtHistory) > 5
    /\ Len(CallsOf("complete")) = 1
    /\ rtResponse = <<"H","e","l","l","o","!">>

(* C14: process_image with an empty caption returns the fixed              *)
(* what-should-I-do text without classifying, reading history or calling   *)
(* the coordinator; with a caption, image intent edit_only or both returns *)
(* the fixed editing-unavailable text with no generator started, and       *)
(* post_only calls the coordinator with the prompt "User uploaded an image *)
(* and wants: <caption>" and returns its result.                           *)
ProcessImageDispatch ==
    (rtOp = "process_image" /\ rtPc \notin { "start", "raised" }) =>
        /\ Len(rtInput) = 0 =>
              /\ rtPc = "returned"
              /\ rtResponse = _image_instructions_required_response
              /\ rtCalls = <<>> /\ cpPc = "idle" /\ tasks = <<>>
        /\ (Len(rtInput) > 0 /\ rtIntent \in { Tedit_only, Tboth }) =>
              /\ rtPc = "returned"
              /\ rtResponse = _image_editing_not_available_response
              /\ CallsOf("create_posts") = <<>> /\ cpPc = "idle" /\ tasks = <<>>
        /\ (Len(rtInput) > 0 /\ rtIntent = Tpost_only) =>
              /\ CallsOf("create_posts")
                    = << Call("create_posts",
                              <<"U","s","e","r"," ","u","p","l","o","a","d","e","d"," ",
                                "a","n"," ","i","m","a","g","e"," ","a","n","d"," ","w",
                                "a","n","t","s",":"," ">>
                              \o rtInput,
                              rtHistory, NoRequest) >>
              /\ rtPc = "returned" => (cpPc = "done" /\ rtResponse = response)
        /\ Len(rtInput) > 0 => rtIntent \in { Tedit_only, Tpost_only, Tboth }

\* a captioned image classified post_only got the coordinator's posts back
ImagePostOnlyReached ==
    /\ rtOp = "process_image" /\ rtPc = "returned" /\ rtIntent = Tpost_only
    /\ Len(results) >= 1 /\ results[1].ok
    /\ rtResponse = response /\ Len(response) > 0

-----------------------------------------------------------------------------
(* Specification SpecBot: inbound text and image messages of several users *)
(* in several chats, handled one after the other from the authorization    *)
(* check to the reply, the router and the coordinator included.            *)

MaxUpdates == 2

UserIds == { 1, 2 }

\* the chats messages come from: two chats of one user, one chat of two users
Pairs == { <<1, 1>>, <<1, 2>>, <<2, 1>> }

Update(kind, pair, text) ==
    [kind |-> kind, user_id |-> pair[1], chat_id |-> pair[2], text |-> text]

\* the inbound messages: a command, a text, or a photo with its caption
\* (may be empty)
Updates ==
    { Update(k, p, <<>>) : k \in { "start", "help" }, p \in { <<1, 1>>, <<2, 1>> } }
    \cup
    { Update("text", p, <<"H","i">>) : p \in Pairs }
    \cup
    { Update("photo", <<1, 1>>, t) : t \in RouterCaptions }
    \cup
    { Update("photo", <<2, 1>>, <<>>) }

BotInit ==
    /\ requests = <<>>
    /\ GenIdle /\ ClsIdle /\ CpIdle /\ RtIdle
    /\ messages = <<>> /\ clock = 0 /\ fetchLog = <<>>
    /\ max_history = DEFAULT_MAX_CONVERSATION_HISTORY
    /\ conversations = <<>>
    /\ allowed_user_ids \in { {}, {1} }
    /\ update = NoUpdate
    /\ botPc = "idle"
    /\ conversation = NoConversation
    /\ sends = <<>>
    /\ rowsBefore = 0
    /\ handled = 0

\* the replies delivered for the inbound message, in order
replies ==
    LET delivered == SelectSeq(sends, LAMBDA m : m.ok)
    IN  [i \in 1..Len(delivered) |-> SentReply(delivered[i].chat_id, delivered[i].text)]

\* the handler ends
HandlerDone ==
    /\ botPc' = "idle"

\* reply_text is called with a text: it returns and `next` follows, or it
\* raises and `handler` follows
ReplyText(text, ok, next, handler) ==
    /\ sends' = Append(sends, Send(update.chat_id, text, ok))
    /\ botPc' = IF ok THEN next ELSE handler

\* a handler is entered with an update: the authorization check.  The
\* router and the coordinator of the update before are gone
HandlerEntry(u, authorized) ==
    /\ botPc = "idle"
    /\ handled < MaxUpdates
    /\ handled' = handled + 1
    /\ update' = u
    /\ conversation' = NoConversation
    /\ sends' = <<>>
    /\ requests' = <<>>
    /\ rowsBefore' = Len(messages)
    /\ botPc' = IF ~_check_authorization(u.user_id) THEN "not_authorized" ELSE authorized
    /\ rtOp' = "-" /\ rtInput' = <<>> /\ rtPc' = "idle" /\ rtHistory' = <<>>
    /\ rtIntent' = <<>> /\ rtCalls' = <<>> /\ rtResponse' = <<>>
    /\ cpPc' = "idle" /\ platforms' = <<>> /\ platform_names' = <<>>
    /\ tasks' = <<>> /\ results' = <<>> /\ response' = <<>> /\ completions' = <<>>
    /\ cpPrompt' = <<>> /\ cpHistory' = <<>>
    /\ UNCHANGED <<conversations, allowed_user_ids, genVars, clsVars, dbVars>>

\* TelegramBot._start_command up to its reply
_start_command(u) ==
    /\ u.kind = "start"
    /\ HandlerEntry(u, "command_reply")

\* TelegramBot._help_command up to its reply
_help_command(u) ==
    /\ u.kind = "help"
    /\ HandlerEntry(u, "command_reply")

\* TelegramBot._handle_text up to the typing action
_handle_text(u) ==
    /\ u.kind = "text"
    /\ HandlerEntry(u, "send_action")

\* TelegramBot._handle_image up to the typing action
_handle_image(u) ==
    /\ u.kind = "photo"
    /\ HandlerEntry(u, "send_action")

\* the not-authorized notice is sent and the handler returns; a failure of
\* the send leaves the handler and reaches _error_handler
NotAuthorizedReplyDone(ok) ==
    /\ botPc = "not_authorized"
    /\ ReplyText(not_authorized_text, ok, "idle", "error_handler")
    /\ UNCHANGED <<conversations, allowed_user_ids, update, conversation, rowsBefore,
                   handled, genVars, clsVars, cpVars, dbVars, rtVars, gwVars>>

\* the reply of /start or /help is sent
CommandReplyDone(ok) ==
    /\ botPc = "command_reply"
    /\ ReplyText(IF update.kind = "start" THEN welcome ELSE help_text,
                 ok, "idle", "error_handler")
    /\ UNCHANGED <<conversations, allowed_user_ids, update, conversation, rowsBefore,
                   handled, genVars, clsVars, cpVars, dbVars, rtVars, gwVars>>

\* outcomes of the store while the inbound message is saved
StoreOutcomes == { "ok", "lookup_raises", "save_raises" }

\* the conversation is looked up or created, the inbound message is saved
\* and a new SuperAgent is given the request; an exception of the store
\* reaches the handler's except
StoreAndProcess(op, content, input, store) ==
    LET got == _get_or_create_conversation(conversations, update.user_id, update.chat_id)
    IN  IF store = "lookup_raises"
        THEN /\ botPc' = "apology"
             /\ UNCHANGED <<conversations, conversation, dbVars, rtVars>>
        ELSE IF store = "save_raises"
        THEN /\ conversations' = got.rows
             /\ conversation' = got.row
             /\ botPc' = "apology"
             /\ UNCHANGED <<dbVars, rtVars>>
        ELSE /\ conversations' = got.rows
             /\ conversation' = got.row
             /\ clock' = created_at_default(clock)
             /\ messages' = Append(messages, Message(got.row.id, "user", content, clock'))
             /\ rtOp' = op /\ rtInput' = input /\ rtPc' = "start"
             /\ rtHistory' = <<>> /\ rtIntent' = <<>> /\ rtCalls' = <<>>
             /\ rtResponse' = <<>>
             /\ botPc' = "agent"
             /\ UNCHANGED <<max_history, fetchLog>>

\* the typing action returns or fails; a failure is outside the handler's
\* try and reaches _error_handler
SendActionDone(ok, store) ==
    /\ botPc = "send_action"
    /\ IF ~ok
       THEN /\ botPc' = "error_handler"
            /\ UNCHANGED <<conversations, conversation, dbVars, rtVars>>
       ELSE IF update.kind = "text"
       THEN StoreAndProcess("process_text", update.text, update.text, store)
       ELSE /\ botPc' = "download"
            /\ UNCHANGED <<conversations, conversation, dbVars, rtVars>>
    /\ UNCHANGED <<allowed_user_ids, update, sends, rowsBefore, handled,
                   genVars, clsVars, cpVars, gwVars>>

\* _handle_image: the download of the photo returns or fails
DownloadDone(ok, store) ==
    /\ botPc = "download"
    /\ IF ~ok
       THEN /\ botPc' = "apology"
            /\ UNCHANGED <<conversations, conversation, dbVars, rtVars>>
       ELSE StoreAndProcess("process_image", image_uploaded(update.text), update.text,
                            store)
    /\ UNCHANGED <<allowed_user_ids, update, sends, rowsBefore, handled,
                   genVars, clsVars, cpVars, gwVars>>

\* the router has returned: the response is saved, then the reply is due;
\* an exception of the store reaches the handler's except
AgentReturned(saved) ==
    /\ botPc = "agent" /\ rtPc = "returned"
    /\ IF saved
       THEN /\ clock' = created_at_default(clock)
            /\ messages' = Append(messages,
                                  Message(conversation.id, "assistant", rtResponse, clock'))
            /\ botPc' = "reply"
       ELSE /\ botPc' = "apology"
            /\ UNCHANGED <<messages, clock>>
    /\ UNCHANGED <<max_history, fetchLog, conversations, allowed_user_ids, update,
                   conversation, sends, rowsBefore, handled, genVars, clsVars, cpVars,
                   rtVars, gwVars>>

\* as AgentRaised, but the apology is saved as the assistant's answer
AgentRaisedSavesApology ==
    /\ botPc = "agent" /\ rtPc = "raised"
    /\ clock' = created_at_default(clock)
    /\ messages' = Append(messages,
                          Message(conversation.id, "assistant",
                                  IF update.kind = "text" THEN text_error_text
                                  ELSE image_error_text, clock'))
    /\ botPc' = "apology"
    /\ UNCHANGED <<max_history, fetchLog, conversations, allowed_user_ids, update,
                   conversation, sends, rowsBefore, handled, genVars, clsVars, cpVars,
                   rtVars, gwVars>>

\* the router has raised: the handler's except is entered
AgentRaised ==
    /\ botPc = "agent" /\ rtPc = "raised"
    /\ botPc' = "apology"
    /\ UNCHANGED <<conversations, allowed_user_ids, update, conversation, sends,
                   rowsBefore, handled, genVars, clsVars, cpVars, dbVars, rtVars, gwVars>>

\* as ReplyDone, but the handler's apology follows a delivered response too
ReplyDoneThenApology(ok) ==
    /\ botPc = "reply"
    /\ ReplyText(rtResponse, ok, "apology", "apology")
    /\ UNCHANGED <<conversations, allowed_user_ids, update, conversation, rowsBefore,
                   handled, genVars, clsVars, cpVars, dbVars, rtVars, gwVars>>

\* the routed response is sent, or the send fails and the handler's except
\* is entered
ReplyDone(ok) ==
    /\ botPc = "reply"
    /\ ReplyText(rtResponse, ok, "idle", "apology")
    /\ UNCHANGED <<conversations, allowed_user_ids, update, conversation, rowsBefore,
                   handled, genVars, clsVars, cpVars, dbVars, rtVars, gwVars>>

\* the handler's except: its apology is sent; a failure of the send leaves
\* the handler and reaches _error_handler
ApologyDone(ok) ==
    /\ botPc = "apology"
    /\ ReplyText(IF update.kind = "text" THEN text_error_text ELSE image_error_text,
                 ok, "idle", "error_handler")
    /\ UNCHANGED <<conversations, allowed_user_ids, update, conversation, rowsBefore,
                   handled, genVars, clsVars, cpVars, dbVars, rtVars, gwVars>>

\* TelegramBot._error_handler: its notice is sent; a failure of the send is
\* logged by the dispatcher and nothing more is sent
_error_handler(ok) ==
    /\ botPc = "error_handler"
    /\ ReplyText(unexpected_error_text, ok, "idle", "idle")
    /\ UNCHANGED <<conversations, allowed_user_ids, update, conversation, rowsBefore,
                   handled, genVars, clsVars, cpVars, dbVars, rtVars, gwVars>>

\* the gateway outcomes drawn while a message is handled
BotIntentRemotes ==
    { RemoteError, RemoteText(Tcreate_post), RemoteText(Tedit_image), RemoteText(Tgeneral) }

BotImageIntentRemotes == { RemoteError, RemoteText(Tpost_only), RemoteText(Tboth) }

BotDetectRemotes == { RemoteText(Tnone), RemoteText(Tlinkedin) }

BotPostRemotes == { RemoteError, RemoteText(TextPostA) }

BotChatRemotes == { RemoteError, RemoteText(<<"H","e","l","l","o","!">>) }

\* the steps of the router and of the coordinator for the inbound message
BotAgentNext ==
    \/ \E remote \in BotIntentRemotes : process_text(remote)
    \/ \E remote \in BotImageIntentRemotes : process_image(remote)
    \/ _get_conversation_history_raises
    \/ CreatePostsReturn
    \/ \E remote \in BotChatRemotes : GeneralConversationReturn(remote)
    \/ \E remote \in BotDetectRemotes : DetectReturn(remote)
    \/ \E i \in 1..Len(tasks), remote \in BotPostRemotes : TaskDone(i, remote)
    \/ GatherReturn

\* an update arrives and its handler is entered
BotArrival ==
    \/ \E u \in Updates : _start_command(u)
    \/ \E u \in Updates : _help_command(u)
    \/ \E u \in Updates : _handle_text(u)
    \/ \E u \in Updates : _handle_image(u)

\* the steps of the handler after its entry
BotHandlerNext ==
    \/ \E ok \in BOOLEAN : NotAuthorizedReplyDone(ok)
    \/ \E ok \in BOOLEAN : CommandReplyDone(ok)
    \/ \E ok \in BOOLEAN, store \in StoreOutcomes : SendActionDone(ok, store)
    \/ \E ok \in BOOLEAN, store \in StoreOutcomes : DownloadDone(ok, store)
    \/ \E saved \in BOOLEAN : AgentReturned(saved)
    \/ AgentRaised
    \/ \E ok \in BOOLEAN : ReplyDone(ok)
    \/ \E ok \in BOOLEAN : ApologyDone(ok)
    \/ \E ok \in BOOLEAN : _error_handler(ok)

BotNext ==
    \/ BotArrival
    \/ BotHandlerNext
    \/ BotAgentNext

SpecBot == BotInit /\ [][BotNext]_vars

\* every call the handler, the router or the coordinator awaits returns or
\* fails in the end, and the event loop then resumes the awaiting coroutine
BotFairness == WF_vars(BotHandlerNext) /\ WF_vars(BotAgentNext)

MaxFairUpdates == 1

\* the inbound messages of the fair specification
FairUpdates ==
    { Update("start", <<1, 1>>, <<>>),
      Update("text", <<1, 1>>, <<"H","i">>),
      Update("photo", <<1, 1>>, <<"n","i","c","e">>),
      Update("photo", <<2, 1>>, <<>>) }

\* an update arrives, as long as fewer than MaxFairUpdates have
BotFairArrival ==
    /\ handled < MaxFairUpdates
    /\ \E u \in FairUpdates : _start_command(u) \/ _handle_text(u) \/ _handle_image(u)

BotFairNext ==
    \/ BotFairArrival
    \/ BotHandlerNext
    \/ BotAgentNext

SpecBotFair == BotInit /\ [][BotFairNext]_vars /\ BotFairness

\* the (user, chat) pair of a conversation row
PairOf(c) == << c.telegram_user_id, c.telegram_chat_id >>

(* C16: message handling never modifies or deletes a conversation row; the *)
(* store holds at most one conversation per (user id, chat id) pair; a row *)
(* is created only for a pair that has none; and the handler of a message  *)
(* works on the stored conversation of the message's pair, so every later  *)
(* message of the pair reuses it.                                          *)
OneConversationPerPair ==
    [][ /\ IsPrefix(conversations, conversations')
        /\ \A i, j \in 1..Len(conversations') :
              i # j => /\ PairOf(conversations'[i]) # PairOf(conversations'[j])
                       /\ conversations'[i].id # conversations'[j].id
        /\ Len(conversations') > Len(conversations) =>
              /\ Len(conversations') = Len(conversations) + 1
              /\ \A i \in 1..Len(conversations) :
                    PairOf(conversations[i]) # << update.user_id, update.chat_id >>
              /\ PairOf(conversations'[Len(conversations')])
                    = << update.user_id, update.chat_id >>
        /\ botPc' \in { "agent", "reply" } =>
              /\ \E i \in 1..Len(conversations') : conversations'[i] = conversation'
              /\ PairOf(conversation') = << update'.user_id, update'.chat_id >>
        /\ \A k \in 1..Len(messages') :
              \E i \in 1..Len(conversations') :
                 conversations'[i].id = messages'[k].conversation_id
      ]_vars

\* a second message of a pair is being handled in the conversation that
\* its first message created, next to the conversation of another pair
ConversationReusedReached ==
    /\ handled = 2 /\ botPc = "agent"
    /\ Len(conversations) = 1
    /\ Len(messages) = 3
    /\ \A k \in 1..3 : messages[k].conversation_id = conversation.id

-----------------------------------------------------------------------------
(* Specification SpecPostsUnit: create_posts with a platform detector of   *)
(* any behaviour in place of OpenAIService.detect_platforms, as the unit   *)
(* tests of the coordinator run it: the detected list may hold names the   *)
(* coordinator has no generator for.                                       *)

MaxDetected == 3

Ttiktok == <<"t","i","k","t","o","k">>

Tfacebook == <<"F","a","c","e","b","o","o","k">>

\* names a detector may return
DetectedNames == { Tlinkedin, Tschool, <<"L","i","n","k","e","d","I","n">>, Ttiktok, Tfacebook }

DetectedLists == UNION { [1..k -> DetectedNames] : k \in 0..MaxDetected }

\* the detection returns a list of names
DetectReturnsList(ps) ==
    /\ cpPc = "detect"
    /\ Detected(ps)
    /\ UNCHANGED gwVars

\* outcomes of a generator's completion call
UnitPostRemotes == { RemoteError, RemoteText(TextPostA) }

CpUnitNext ==
    \/ \E ps \in DetectedLists : DetectReturnsList(ps)
    \/ \E i \in 1..Len(tasks), remote \in UnitPostRemotes : TaskDone(i, remote)
    \/ GatherReturn

CpUnitInit ==
    /\ CpEntered
    /\ cpPrompt = TextPostA
    /\ cpHistory = <<>>

SpecPostsUnit == CpUnitInit /\ [][CpUnitNext]_vars

\* the names the coordinator has a generator for, whatever their case
HasGenerator(name) ==
    Lower(name) \in { Tx, Ttwitter, Tlinkedin, Tinstagram, Tyoutube, Tschool }

\* the detected names that have a generator, in detection order
WithGenerator(ps) == SelectSeq(ps, HasGenerator)

(* C20: a detected name for which the coordinator has no generator is      *)
(* skipped without error: create_posts does not raise, starts no generator *)
(* for it and puts neither a content block nor an error marker for it in   *)
(* the response, and the blocks of the other detected platforms are as     *)
(* they are without it.                                                    *)
UnknownPlatformSkipped ==
    (cpPc # "detect" /\ Len(platforms) > 0) =>
        LET known == WithGenerator(platforms)
        IN  /\ cpPc \in { "gather", "done" }
            /\ tasks = [i \in 1..Len(known) |-> Lower(known[i])]
            /\ Len(results) = Len(known)
            /\ cpPc = "done" =>
                  /\ \A i \in 1..Len(platforms) :
                        ~HasGenerator(platforms[i]) =>
                           ~Contains(Lower(<<"*","*">> \o platforms[i] \o <<"*","*">>),
                                     Lower(response))
                  /\ Lower(response)
                        = Lower(Join(<< Header >> \o
                                     [i \in 1..Len(known) |->
                                         ExpectedBlock(known[i], results[i])],
                                     <<"\n">>))

\* a name without a generator was detected between two that have one, and
\* the response holds the two blocks
UnknownPlatformSkippedReached ==
    /\ cpPc = "done"
    /\ Len(platforms) = 3
    /\ HasGenerator(platforms[1]) /\ ~HasGenerator(platforms[2])
    /\ HasGenerator(platforms[3])
    /\ Len(results) = 2 /\ results[1].ok /\ ~results[2].ok

-----------------------------------------------------------------------------
(* Claims on the handling of one inbound message, end to end (SpecBot).    *)

\* the apology of a handler's except
apology_text(kind) == IF kind = "text" THEN text_error_text ELSE image_error_text

\* the requests of the current inbound message that failed
FailedRequests == SelectSeq(requests, LAMBDA q : ~q.ok)

(* C22: an exception raised by a gateway call during routing is not caught *)
(* inside the router: it reaches the transport handler, so the router      *)
(* returns no text, no assistant row is stored and the handler's reply is  *)
(* its generic apology.                                                    *)
GatewayFailureReachesHandler ==
    (botPc = "idle" /\ Len(FailedRequests) > 0) =>
        /\ rtPc # "returned"
        /\ Len(messages) = rowsBefore + 1
        /\ Len(sends) > 0
        /\ sends[1].text = apology_text(update.kind)

-----------------------------------------------------------------------------
(* Claims on the requests of the generators (SpecPosts).                   *)

\* the requests made by the generators
GeneratorRequests == SelectSeq(requests, LAMBDA q : q.caller = "create_post")

(* C23: each generator sends the model exactly its system prompt, then the *)
(* last min(3, length) entries of the history it was given, in their       *)
(* order, then the live prompt as the final user message.                  *)
GeneratorMessageList ==
    \A i \in 1..Len(GeneratorRequests) :
       LET q == GeneratorRequests[i]
           n == Min(3, Len(cpHistory))
       IN  /\ Len(q.messages) = n + 2
           /\ q.messages[1].role = "system"
           /\ q.messages[1].content
                 = CASE q.key \in { Tx, Ttwitter } -> XAgent_system_prompt
                     [] q.key = Tlinkedin          -> LinkedInAgent_system_prompt
                     [] q.key = Tinstagram         -> InstagramAgent_system_prompt
                     [] q.key = Tyoutube           -> YouTubeAgent_system_prompt
                     [] q.key = Tschool            -> SchoolAgent_system_prompt
           /\ \A j \in 1..n : q.messages[1 + j] = cpHistory[Len(cpHistory) - n + j]
           /\ q.messages[n + 2] = [role |-> "user", content |-> cpPrompt]

\* three generators were given a history of more than three entries, and
\* each has sent its request
LongHistoryForwardedReached ==
    /\ cpPc = "done"
    /\ Len(cpHistory) > 3
    /\ Len(GeneratorRequests) = 3
    /\ \A i \in 1..3 : Len(GeneratorRequests[i].messages) = 5

-----------------------------------------------------------------------------
(* Claims on the requests of one routed message (SpecRouter).              *)

\* the requests one operation has made for the current message
RequestsOf(caller) == SelectSeq(requests, LAMBDA q : q.caller = caller)

(* C24: while one message is routed every gateway operation is attempted   *)
(* at most once, whether it succeeds or fails: at most one intent          *)
(* classification, one platform detection, one general completion and one  *)
(* request per started generator; a text classified create_post for which  *)
(* k generators are started has caused exactly k + 2 requests when the     *)
(* router returns: the intent, the detection, one per generator.           *)
NoGatewayRetry ==
    /\ Len(RequestsOf("analyze_intent")) + Len(RequestsOf("analyze_image_intent")) <= 1
    /\ Len(RequestsOf("detect_platforms")) <= 1
    /\ Len(RequestsOf("_handle_general_conversation")) <= 1
    /\ \A i, j \in 1..Len(GeneratorRequests) :
          i # j => GeneratorRequests[i].task # GeneratorRequests[j].task
    /\ \A i \in 1..Len(GeneratorRequests) :
          GeneratorRequests[i].task \in 1..Len(tasks)
    /\ (rtOp = "process_text" /\ rtPc = "returned" /\ rtIntent = Tcreate_post) =>
          /\ Len(requests) = Len(tasks) + 2
          /\ requests[1].caller = "analyze_intent"
          /\ requests[2].caller = "detect_platforms"
          /\ Len(GeneratorRequests) = Len(tasks)

\* a text classified create_post with three generators, one of which
\* failed, was answered after five requests
ThreeGeneratorsFiveRequestsReached ==
    /\ rtOp = "process_text" /\ rtPc = "returned" /\ rtIntent = Tcreate_post
    /\ Len(tasks) = 3
    /\ Len(requests) = 5
    /\ Len(FailedRequests) = 1
    /\ ~requests[5].ok

\* the update under handling comes from a user the allow-list excludes
Unauthorized(u) == u # NoUpdate /\ ~_check_authorization(u.user_id)

(* C26: with a non-empty allow-list, a text, an image or a command from a  *)
(* user who is not on it has no effect except the not-authorized reply: no *)
(* step of its handling creates a conversation, appends a message row,     *)
(* starts the router or makes a gateway request, and the one reply the     *)
(* handler sends is the not-authorized notice (if that send fails, the     *)
(* notice of _error_handler follows and nothing else).  With an empty      *)
(* allow-list every user is authorized and no update is turned away.       *)
UnauthorizedHasNoEffect ==
    [][ /\ Unauthorized(update') =>
              /\ allowed_user_ids # {}
              /\ conversations' = conversations
              /\ messages' = messages
              /\ requests' = <<>>
              /\ rtPc' = "idle" /\ cpPc' = "idle"
              /\ botPc' \in { "not_authorized", "error_handler", "idle" }
              /\ Len(sends') <= 2
              /\ Len(sends') >= 1 =>
                    sends'[1] \in { Send(update'.chat_id, not_authorized_text, ok) :
                                      ok \in BOOLEAN }
              /\ Len(sends') = 2 =>
                    /\ ~sends'[1].ok
                    /\ sends'[2].text = unexpected_error_text
              /\ botPc' = "idle" => Len(sends') >= 1
        /\ allowed_user_ids = {} =>
              /\ \A user_id \in UserIds : _check_authorization(user_id)
              /\ botPc' # "not_authorized"
      ]_vars

\* after a stored message of an allowed user, a photo of a user who is not
\* on the list was answered with the notice alone
UnauthorizedTurnedAwayReached ==
    /\ allowed_user_ids = { 1 }
    /\ handled = 2 /\ botPc = "idle"
    /\ update.kind = "photo" /\ update.user_id = 2
    /\ sends = << Send(update.chat_id, not_authorized_text, TRUE) >>
    /\ Len(messages) = 2 /\ rowsBefore = 2
    /\ Len(conversations) = 1
    /\ requests = <<>>

\* how many messages of a request carry a text as their content
Occurrences(text, msgs) == Cardinality({ k \in 1..Len(msgs) : msgs[k].content = text })

(* C27: when a text message is handled end to end, its text appears        *)
(* exactly once in the messages of the intent classification, of each      *)
(* generator and of the general completion: the history fetched for the    *)
(* request holds only rows stored before the inbound message.              *)
InboundTextSentOnce ==
    (update.kind = "text" /\ botPc = "agent") =>
        /\ \A i \in 1..Len(requests) :
              requests[i].caller \in { "analyze_intent", "create_post",
                                       "_handle_general_conversation" }
                 => Occurrences(update.text, requests[i].messages) = 1
        /\ rtPc \notin { "start", "raised" } => Len(rtHistory) <= rowsBefore

-----------------------------------------------------------------------------
(* Claims on the replies of an inbound message (SpecBotFair).              *)

\* the n-th inbound message is a text or an image and is being handled
Inbound(n) == handled = n /\ botPc # "idle" /\ update.kind \in { "text", "photo" }

\* the texts a reply to the inbound message may be
ReplyTexts ==
    { not_authorized_text, rtResponse, apology_text(update.kind), unexpected_error_text }

\* the original statement of C28: every inbound text or image ends with
\* exactly one reply delivered
EveryMessageOneReply ==
    \A n \in 1..MaxFairUpdates :
       Inbound(n) ~> (handled = n /\ botPc = "idle" /\ Len(replies) = 1)

(* C28: when every awaited call returns or fails in the end, the handling  *)
(* of every inbound text or image ends, with at most one reply delivered:  *)
(* the not-authorized notice, the routed response, the handler's apology   *)
(* or the notice of _error_handler.  Exactly one is delivered unless the   *)
(* last send attempted, that of _error_handler's notice, has failed.       *)
EveryMessageOneReplyUnlessSendsFail ==
    \A n \in 1..MaxFairUpdates :
       Inbound(n) ~>
          /\ handled = n /\ botPc = "idle"
          /\ Len(sends) >= 1
          /\ Len(replies) <= 1
          /\ \A i \in 1..Len(replies) : replies[i].text \in ReplyTexts
          /\ Len(replies) = 0 =>
                /\ sends[Len(sends)].text = unexpected_error_text
                /\ \A i \in 1..Len(sends) : ~sends[i].ok

\* the send of a routed response failed and the handler's apology was
\* delivered in its place
ApologyAfterFailedReplyReached ==
    /\ botPc = "idle" /\ update.kind = "text"
    /\ Len(sends) = 2
    /\ sends[1].text = rtResponse /\ ~sends[1].ok
    /\ replies = << SentReply(update.chat_id, text_error_text) >>

-----------------------------------------------------------------------------
(* Claims on the message store while messages are handled (SpecBot).       *)

(* C29: handling a message only appends to the message store, one row at a *)
(* time, and only for an authorized user.  The user row is appended first, *)
(* before any gateway request; the assistant row is appended after the     *)
(* router has returned, holds its response and comes before any reply is   *)
(* sent, right after the user row of the same conversation; when the       *)
(* router raises, the user row is the only row of the message.  Hence      *)
(* every assistant row is immediately preceded by the user row it answers. *)
MessageStoreAppendOnly ==
    [][ /\ IsPrefix(messages, messages')
        /\ Len(messages') <= Len(messages) + 1
        /\ Len(messages') > Len(messages) =>
              LET row == messages'[Len(messages')]
              IN  /\ _check_authorization(update.user_id)
                  /\ row.conversation_id = conversation'.id
                  /\ row.role \in { "user", "assistant" }
                  /\ row.role = "user" =>
                        /\ Len(messages) = rowsBefore
                        /\ requests' = <<>>
                        /\ rtPc' = "start"
                        /\ sends' = <<>>
                  /\ row.role = "assistant" =>
                        /\ rtPc = "returned"
                        /\ row.content = rtResponse
                        /\ Len(messages) = rowsBefore + 1
                        /\ sends' = <<>> /\ botPc' = "reply"
        /\ rtPc' = "raised" =>
              /\ Len(messages') = rowsBefore' + 1
              /\ messages'[Len(messages')].role = "user"
        /\ \A i \in 1..Len(messages') :
              messages'[i].role = "assistant" =>
                 /\ i > 1
                 /\ messages'[i - 1].role = "user"
                 /\ messages'[i - 1].conversation_id = messages'[i].conversation_id
      ]_vars

\* after an answered message, the router raised for a second one: its user
\* row is the newest row and the handler's apology was delivered
RoutingRaisedUserRowOnlyReached ==
    /\ handled = 2 /\ botPc = "idle" /\ rtPc = "raised"
    /\ Len(messages) = 3 /\ rowsBefore = 2
    /\ messages[2].role = "assistant" /\ messages[3].role = "user"
    /\ replies = << SentReply(update.chat_id, apology_text(update.kind)) >>

(* C30: for every handled message the assistant row stored for it holds    *)
(* the reply the user received for it: when the handling has ended with an *)
(* assistant row stored, the one reply delivered is that row's content, so *)
(* no assistant row is stored for a message answered with an apology.      *)
AssistantRowIsTheReply ==
    (botPc = "idle" /\ handled > 0 /\ Len(messages) = rowsBefore + 2) =>
        replies = << SentReply(update.chat_id, messages[Len(messages)].content) >>

=============================================================================
